---------------------------- MODULE Spec2Model ----------------------------
(***************************************************************************)
(* A model of the energymon backends.                                      *)
(*                                                                         *)
(* Part 1: the NVIDIA Jetson INA3221 backend (jetson/energymon-jetson.c):  *)
(* rail discovery in sysfs, the polling-interval resolver, the life cycle  *)
(* (init / read / finish) on the controlling thread and the sampler thread *)
(* jetson_poll_sensors.                                                    *)
(*                                                                         *)
(* C arrays are 0-based, TLA+ sequences 1-based: fds[i] of the code is     *)
(* fds[i+1] here, DEFAULT_RAIL_NAMES[i] is DEFAULT_RAIL_NAMES[i+1].        *)
(***************************************************************************)
EXTENDS Integers, Sequences, FiniteSets, TLC

----------------------------------------------------------------------------
(* Program constants *)

NUM_RAILS_DEFAULT_MAX == 6
INA3221_CHANNELS_MAX == 3
INA3221_MIN_POLLING_DELAY_US == 1000
INA3221_DEFAULT_POLLING_DELAY_US == 100000

\* The ordered table of default profiles (NULL padding of the C arrays left out:
\* the length of a profile is what the counting loop of line 281 finds).
DEFAULT_RAIL_NAMES ==
  << <<"VDD_IN", "VDD_MUX">>,
     <<"VDD_IN">>,
     <<"POM_5V_IN">>,
     <<"GPU", "CPU", "SOC", "CV", "VDDRQ", "SYS5V">> >>

----------------------------------------------------------------------------
(* Bounds of the model *)

\* longest explicit rail list (comma separated fields of the variable)
MaxList == 3
\* ticks of the sampler loop followed in one run of the thread
MaxTicks == 3
\* calls of energymon_init_jetson that pass the state check
MaxInits == 2
\* reads of one run of the sampler that deliver no value (error, end of file)
MaxFaults == 1

----------------------------------------------------------------------------
(* The environment: the sysfs tree, the two environment variables *)

RailNames ==
  {"VDD_IN", "VDD_MUX", "POM_5V_IN", "GPU", "CPU", "SOC", "CV", "VDDRQ", "SYS5V"}

\* a fixed order in which readdir delivers the channels
RailOrder ==
  <<"VDD_IN", "VDD_MUX", "POM_5V_IN", "GPU", "CPU", "SOC", "CV", "VDDRQ", "SYS5V">>

\* the names an explicit list is drawn from
ExplicitNames == {"GPU", "CPU", "SOC"}

\* instantaneous power (mW) a rail's in_powerN_input file shows
PowerOf(name) ==
  CASE name = "GPU" -> 500
    [] name = "CPU" -> 300
    [] name = "SOC" -> 200
    [] name = "VDD_IN" -> 700
    [] name = "VDD_MUX" -> 900
    [] OTHER -> 100

\* polling_delay_N files (milliseconds); -1: the file cannot be read
DelayMaps ==
  { [n \in RailNames |-> 0],
    [n \in RailNames |->
       CASE n = "VDD_IN" -> 1
         [] n = "VDD_MUX" -> 200
         [] n = "GPU" -> 200
         [] n = "CPU" -> 1
         [] n = "SOC" -> -1
         [] OTHER -> 0] }

\* One channel of an iio device: its rail_name_N file, its power file, its
\* polling delay file.
Channel(name, delay_ms) ==
  [name |-> name, name_status |-> "ok", power_ok |-> TRUE, delay_ms |-> delay_ms]

RECURSIVE MkFs(_, _, _)
MkFs(present, dm, k) ==
  IF k > Len(RailOrder) THEN << >>
  ELSE IF RailOrder[k] \in present
       THEN <<Channel(RailOrder[k], dm[RailOrder[k]])>> \o MkFs(present, dm, k + 1)
       ELSE MkFs(present, dm, k + 1)

\* the sysfs trees tried without an explicit list, and with one
DefaultFileSystems == { MkFs(S, dm, 1) : S \in SUBSET RailNames, dm \in DelayMaps }
ExplicitFileSystems == { MkFs(S, dm, 1) : S \in SUBSET ExplicitNames, dm \in DelayMaps }

\* ENERGYMON_JETSON_RAIL_NAMES: the fields between the commas ("" is an empty
\* field, as in "GPU,,CPU")
RECURSIVE SeqsUpTo(_, _)
SeqsUpTo(S, n) ==
  IF n = 0 THEN { << >> }
  ELSE LET shorter == SeqsUpTo(S, n - 1)
       IN  shorter \cup { Append(s, x) : s \in { t \in shorter : Len(t) = n - 1 }, x \in S }

RailNameStrings == SeqsUpTo(ExplicitNames \cup {""}, MaxList)

\* an interval long enough for the total to pass 2^32 uJ within the ticks of a run
LongInterval == 2000000000

\* ENERGYMON_JETSON_INTERVAL_US: unset, or set to a text: a number, a number
\* followed by letters, letters only, or a number too large for unsigned long
NoEnv == [set |-> FALSE, text |-> ""]
IntervalTexts == { "0", "500", "5000", "5000us", "fast", "99999999999999999999" }
IntervalEnvs == { NoEnv } \cup { [set |-> TRUE, text |-> t] : t \in IntervalTexts }

\* strtoul(nptr, NULL, 0): the value and the errno it leaves (errno was set to
\* 0 before the call).  The digits before the first other character are
\* converted and the rest is ignored; with no digits at all the value is 0 and
\* the C library either leaves errno alone (glibc) or sets EINVAL (musl); an
\* overflow gives ULONG_MAX, which the caller drops, and ERANGE.
strtoul(nptr) ==
  CASE nptr = "0"          -> { [value |-> 0, errno |-> "0"] }
    [] nptr = "500"        -> { [value |-> 500, errno |-> "0"] }
    [] nptr = "5000"       -> { [value |-> 5000, errno |-> "0"] }
    [] nptr = "5000us"     -> { [value |-> 5000, errno |-> "0"] }
    [] nptr = "2000000000" -> { [value |-> LongInterval, errno |-> "0"] }
    [] nptr = "fast"       -> { [value |-> 0, errno |-> "0"], [value |-> 0, errno |-> "EINVAL"] }
    [] OTHER               -> { [value |-> 0, errno |-> "ERANGE"] }

\* what the resolver has in hand after line 424, or with the variable unset
Parsed(env) == IF env.set THEN strtoul(env.text) ELSE { [value |-> 0, errno |-> "0"] }

----------------------------------------------------------------------------
(* Descriptors *)

\* open(2) returns the lowest free descriptor; 0, 1, 2 are the standard streams
LowestFree(open) ==
  CHOOSE n \in 3..(3 + Cardinality(DOMAIN open)) :
    /\ n \notin DOMAIN open
    /\ \A m \in 3..(n - 1) : m \in DOMAIN open

OpenFile(open, fd, name) ==
  [x \in (DOMAIN open) \cup {fd} |-> IF x = fd THEN name ELSE open[x]]

CloseFile(open, fd) ==
  [x \in (DOMAIN open) \ {fd} |-> open[x]]

Zeros(n) == [i \in 1..n |-> 0]


----------------------------------------------------------------------------
(* State *)

VARIABLES
  em_state,        \* em->state: "NULL" or "S" (the one block calloc returns)
  st,              \* the fields of the energymon_jetson block
  heap,            \* live allocations: "state", "names"
  openFds,         \* descriptor -> rail whose power file it reads
  pc,              \* position of the controlling thread
  ret,             \* status returned by the call of init or finish that just ended
  call,            \* locals and inputs of the call in progress or just ended
  pc_s,            \* position of the sampler thread ("none": no thread)
  smp,             \* locals of jetson_poll_sensors: i, sum_mw, errno
  cancel_pending,  \* pthread_cancel was called on the sampler
  android,         \* the build defines __ANDROID__
  nInits,          \* calls of init that passed the state check
  open0,           \* the descriptor table when the latest such call began
  ticks,           \* ticks the running sampler went through
  hist,            \* per tick of this sampler: values read, elapsed us, error
  lastRead,        \* what the latest read_total of this run returned, if any
  osp,             \* the ODROID Smart Power backend: handle, block, device, thread
  ipg              \* the raplcap-ipg backend: handle, block, the call in progress

vars == <<em_state, st, heap, openFds, pc, ret, call, pc_s, smp, cancel_pending,
          android, nInits, open0, ticks, hist, lastRead, osp, ipg>>

\* uint64_t values: four digits of 16 bits, the lowest first
B16 == 65536

\* the uint64_t of a number below 2^31
U64(n) == <<n % B16, n \div B16, 0, 0>>

\* a + b in uint64_t
AddU64(a, b) ==
  LET s1 == a[1] + b[1]
      s2 == a[2] + b[2] + s1 \div B16
      s3 == a[3] + b[3] + s2 \div B16
      s4 == a[4] + b[4] + s3 \div B16
  IN  <<s1 % B16, s2 % B16, s3 % B16, s4 % B16>>

\* a * m in uint64_t, for m below 2^15
MulU64(a, m) ==
  LET t1 == a[1] * m
      t2 == a[2] * m + t1 \div B16
      t3 == a[3] * m + t2 \div B16
      t4 == a[4] * m + t3 \div B16
  IN  <<t1 % B16, t2 % B16, t3 % B16, t4 % B16>>

\* a / d in uint64_t, for d from 1 to below 2^15
DivU64(a, d) ==
  LET r4 == a[4]
      r3 == (r4 % d) * B16 + a[3]
      r2 == (r3 % d) * B16 + a[2]
      r1 == (r2 % d) * B16 + a[1]
  IN  <<r1 \div d, r2 \div d, r3 \div d, r4 \div d>>

\* a <= b in uint64_t
LeqU64(a, b) ==
  \/ a[4] < b[4]
  \/ a[4] = b[4] /\ a[3] < b[3]
  \/ a[4] = b[4] /\ a[3] = b[3] /\ a[2] < b[2]
  \/ a[4] = b[4] /\ a[3] = b[3] /\ a[2] = b[2] /\ a[1] <= b[1]

\* the two 32-bit words of a uint64_t
LowWord(a) == <<a[1], a[2]>>
HighWord(a) == <<a[3], a[4]>>
FromWords(lo, hi) == <<lo[1], lo[2], hi[1], hi[2]>>

\* the block's content had it come from malloc: whatever the memory held
NewState_not_zeroed(n) ==
  [polling_delay_us |-> 0, thread |-> "unset", poll_sensors |-> 0,
   total_uj |-> <<7, 0, 0, 0>>, count |-> n, fds |-> [i \in 1..n |-> 0]]

\* the block's content after calloc(1, ...) with room for n descriptors
NewState(n) ==
  [polling_delay_us |-> 0, thread |-> "unset", poll_sensors |-> 0,
   total_uj |-> U64(0), count |-> n, fds |-> Zeros(n)]

\* what the model keeps for st while no block is allocated
NoState == NewState(0)

\* no read_total has returned a total in this run
NoRead == [valid |-> FALSE, value |-> U64(0)]

\* value: what read_total returns; first: the word it loads first; prev: what
\* the read_total before it returned; stop_total: total_uj when finish cleared
\* poll_sensors; close_ok: every close of finish returned 0; joined: the
\* content of state->thread that finish gave to pthread_join ("none": no join)
NoCall ==
  [op |-> "none", fs |-> << >>, explicit |-> FALSE, str |-> << >>, di |-> 0,
   n_rails |-> 0, polling_delay_us |-> 0, prev |-> NoRead, stage |-> "none",
   errno |-> "0", thread_created |-> FALSE, names |-> << >>,
   value |-> U64(0), first |-> "none", stop_total |-> U64(0), close_ok |-> TRUE,
   env |-> NoEnv, joined |-> "none"]

\* faults: the reads of this tick that delivered no value; late_sleeps: the
\* calls of energymon_sleep_us this thread made with poll_sensors already 0
NoSmp == [i |-> 0, sum_mw |-> 0, errno |-> "0", faults |-> 0, late_sleeps |-> 0]

\* the locals at the start of a tick
NewTick(s) == [NoSmp EXCEPT !.late_sleeps = s.late_sleeps]

----------------------------------------------------------------------------
(* Filesystem Rail Locator *)

\* index (1-based) of the first of names[1..len] equal to name, 0 if none:
\* the strncmp loop of ina3221x_walk_device_dir
MatchIndex(names, len, name) ==
  IF \E i \in 1..len : names[i] = name
  THEN CHOOSE i \in 1..len :
         /\ names[i] = name
         /\ \A j \in 1..(i - 1) : names[j] # name
  ELSE 0

\* read_long of polling_delay_N, scaled to microseconds (-1 on failure, so
\* -1000 here)
ina3221x_try_read_polling_delay_us(ch) == ch.delay_ms * 1000

\* the walk taking a rail-name file it cannot read as a channel that is not
\* connected (line 165 without its test of errno)
WalkChannel_skips_unreadable(names, len, w, ch) ==
  IF ch.name_status # "ok" THEN w
  ELSE
    LET i == MatchIndex(names, len, ch.name) IN
    IF i = 0 THEN w
    ELSE IF w.fds[i] # 0 THEN [w EXCEPT !.ret = -1, !.errno = "EEXIST"]
    ELSE IF ~ch.power_ok
      THEN [w EXCEPT !.fds[i] = -1, !.ret = -1, !.errno = "EACCES"]
    ELSE
      LET fd == LowestFree(w.open)
          d  == ina3221x_try_read_polling_delay_us(ch)
      IN  [w EXCEPT !.fds[i] = fd,
                    !.open = OpenFile(w.open, fd, ch.name),
                    !.dmax = IF d > 0 /\ d > w.dmax THEN d ELSE w.dmax]

\* the walk without the test of a slot already taken (lines 173-177)
WalkChannel_no_duplicate_check(names, len, w, ch) ==
  IF ch.name_status \in {"enoent", "other"} THEN w
  ELSE IF ch.name_status = "nobus" THEN [w EXCEPT !.ret = -1, !.errno = "EACCES"]
  ELSE IF ch.name_status # "ok" THEN [w EXCEPT !.ret = -1, !.errno = "EIO"]
  ELSE
    LET i == MatchIndex(names, len, ch.name) IN
    IF i = 0 THEN w
    ELSE IF ~ch.power_ok
      THEN [w EXCEPT !.fds[i] = -1, !.ret = -1, !.errno = "EACCES"]
    ELSE
      LET fd == LowestFree(w.open)
          d  == ina3221x_try_read_polling_delay_us(ch)
      IN  [w EXCEPT !.fds[i] = fd,
                    !.open = OpenFile(w.open, fd, ch.name),
                    !.dmax = IF d > 0 /\ d > w.dmax THEN d ELSE w.dmax]

\* One entry met by the walk, in readdir order.  w: [fds, open, dmax, ret,
\* errno].  name_status "other": a directory entry that is_i2c_bus_addr_dir or
\* is_iio_device_dir turns down (lines 206, 229); "nobus": a bus directory
\* that opendir cannot open (lines 201-204); else a channel of a device
\* (ina3221x_walk_device_dir): "enoent": no rail-name file, "eio": a rail-name
\* file that cannot be read, "ok": a rail-name file holding ch.name.
WalkChannel(names, len, w, ch) ==
  IF ch.name_status \in {"enoent", "other"} THEN w
  ELSE IF ch.name_status = "nobus" THEN [w EXCEPT !.ret = -1, !.errno = "EACCES"]
  ELSE IF ch.name_status # "ok" THEN [w EXCEPT !.ret = -1, !.errno = "EIO"]
  ELSE
    LET i == MatchIndex(names, len, ch.name) IN
    IF i = 0 THEN w
    ELSE IF w.fds[i] # 0 THEN [w EXCEPT !.ret = -1, !.errno = "EEXIST"]
    ELSE IF ~ch.power_ok
      THEN [w EXCEPT !.fds[i] = -1, !.ret = -1, !.errno = "EACCES"]
    ELSE
      LET fd == LowestFree(w.open)
          d  == ina3221x_try_read_polling_delay_us(ch)
      IN  [w EXCEPT !.fds[i] = fd,
                    !.open = OpenFile(w.open, fd, ch.name),
                    !.dmax = IF d > 0 /\ d > w.dmax THEN d ELSE w.dmax]

\* ina3221x_walk_i2c_drivers_dir, through ina3221x_walk_bus_addr_dir and
\* ina3221x_walk_device_dir: every channel in readdir order, until one fails
RECURSIVE WalkFrom(_, _, _, _, _)
WalkFrom(names, len, w, fs, k) ==
  IF k > Len(fs) \/ w.ret # 0 THEN w
  ELSE WalkFrom(names, len, WalkChannel(names, len, w, fs[k]), fs, k + 1)

ina3221x_walk_i2c_drivers_dir(names, fds, len, dmax, open, fs) ==
  WalkFrom(names, len,
           [fds |-> fds, open |-> open, dmax |-> dmax, ret |-> 0, errno |-> "0"],
           fs, 1)

\* close_and_clear_fds: the pair <<fds, open>> afterwards
close_and_clear_fds_closes_nothing(fds, open, max_fds) ==
  [fds |-> fds, open |-> open]

close_and_clear_fds(fds, open, max_fds) ==
  LET toclose == { fds[i] : i \in { j \in 1..max_fds : fds[j] > 0 } }
  IN  [fds  |-> [i \in 1..Len(fds) |-> IF i <= max_fds /\ fds[i] > 0 THEN 0 ELSE fds[i]],
       open |-> [x \in (DOMAIN open) \ toclose |-> open[x]]]


----------------------------------------------------------------------------
(* Rail names given in the environment *)

\* strtok_to_arr_r with delimiter ",": the non-empty fields, in order
strtok_to_arr_r(str) == SelectSeq(str, LAMBDA f : f # "")

\* get_rail_names without the search for duplicates (lines 401-413)
get_rail_names_no_duplicate_check(str, memok) ==
  LET arr == strtok_to_arr_r(str)
      n   == Len(arr)
  IN  IF ~memok
      THEN [ok |-> FALSE, names |-> << >>, n |-> 0, errno |-> "ENOMEM", heap |-> {}]
      ELSE IF n = 0
      THEN [ok |-> FALSE, names |-> << >>, n |-> 0, errno |-> "EINVAL", heap |-> {}]
      ELSE [ok |-> TRUE, names |-> arr, n |-> n, errno |-> "0", heap |-> {"names"}]

\* get_rail_names: [ok, names, n, errno, heap]; memok: strdup and realloc
\* succeed; heap: what of its allocations is live when it returns (the copy of
\* the string is freed at line 393, the array on a duplicate at line 408)
get_rail_names(str, memok) ==
  LET arr == strtok_to_arr_r(str)
      n   == Len(arr)
  IN  IF ~memok
      THEN [ok |-> FALSE, names |-> << >>, n |-> 0, errno |-> "ENOMEM", heap |-> {}]
      ELSE IF n = 0
      THEN [ok |-> FALSE, names |-> << >>, n |-> 0, errno |-> "EINVAL", heap |-> {}]
      ELSE IF \E i \in 1..(n - 1) : \E j \in (i + 1)..n : arr[i] = arr[j]
      THEN [ok |-> FALSE, names |-> << >>, n |-> 0, errno |-> "EINVAL", heap |-> {}]
      ELSE [ok |-> TRUE, names |-> arr, n |-> n, errno |-> "0", heap |-> {"names"}]

----------------------------------------------------------------------------
(* Sampling Configuration Resolver *)

\* the resolver without its lower bound (lines 439-441 left out)
get_polling_delay_us_unclamped(sysfs_polling_delay_us, env, parsed) ==
  IF env.set
  THEN IF parsed.errno # "0" THEN 0 ELSE parsed.value
  ELSE IF sysfs_polling_delay_us < INA3221_DEFAULT_POLLING_DELAY_US
       THEN INA3221_DEFAULT_POLLING_DELAY_US
       ELSE sysfs_polling_delay_us

\* the resolver taking a delay found in sysfs as it is and the default only
\* when none was found (lines 434-436 as "if (us == 0)")
get_polling_delay_us_sysfs_over_default(sysfs_polling_delay_us, env, parsed) ==
  LET us0 == IF env.set
             THEN parsed.value
             ELSE IF sysfs_polling_delay_us = 0
                  THEN INA3221_DEFAULT_POLLING_DELAY_US
                  ELSE sysfs_polling_delay_us
  IN  IF env.set /\ parsed.errno # "0" THEN 0
      ELSE IF us0 < INA3221_MIN_POLLING_DELAY_US
           THEN INA3221_MIN_POLLING_DELAY_US
           ELSE us0

\* parsed: what strtoul made of the text of the variable (line 424)
get_polling_delay_us(sysfs_polling_delay_us, env, parsed) ==
  LET us0 == IF env.set
             THEN parsed.value
             ELSE IF sysfs_polling_delay_us < INA3221_DEFAULT_POLLING_DELAY_US
                  THEN INA3221_DEFAULT_POLLING_DELAY_US
                  ELSE sysfs_polling_delay_us
  IN  IF env.set /\ parsed.errno # "0" THEN 0
      ELSE IF us0 < INA3221_MIN_POLLING_DELAY_US
           THEN INA3221_MIN_POLLING_DELAY_US
           ELSE us0

----------------------------------------------------------------------------
(* energymon_finish_jetson, the part after the join: close, free *)

\* the descriptors the close loop of finish closes, for a block s
FinishClosed(s) == { s.fds[i] : i \in { j \in 1..s.count : s.fds[j] > 0 } }

finish_release(s, open) ==
  [x \in (DOMAIN open) \ FinishClosed(s) |-> open[x]]

\* close() fails on a descriptor that is not open (EBADF)
finish_close_failed(s, open) == \E fd \in FinishClosed(s) : fd \notin DOMAIN open

----------------------------------------------------------------------------
(* energymon_init_jetson *)

samplerVars == <<pc_s, smp, cancel_pending, ticks, hist>>

\* init returns -1 with the state block gone; open: the descriptor table then;
\* live: the allocations of the call not freed on the way out
\* lines 541-548: the handle finish cancels and joins, "none" when the flag
\* is 0
finish_joins(s) == IF s.poll_sensors # 0 THEN s.thread ELSE "none"

InitFail(c, stage, errno, open, live) ==
  /\ pc' = "init_ret"
  /\ ret' = -1
  /\ em_state' = "NULL"
  /\ st' = NoState
  /\ heap' = live
  /\ openFds' = open
  /\ call' = [c EXCEPT !.stage = stage, !.errno = errno]

\* init without the test of em->state (line 449): a fresh block replaces the
\* one the handle holds
InitRejected_no_guard ==
  /\ pc = "idle"
  /\ em_state # "NULL"
  /\ pc' = "init_ret"
  /\ ret' = 0
  /\ st' = NewState(st.count)
  /\ call' = [NoCall EXCEPT !.op = "init", !.stage = "guard"]
  /\ UNCHANGED <<em_state, heap, openFds, samplerVars, android, osp, ipg, nInits, open0, lastRead>>

\* init on a handle that holds a state: EINVAL
InitRejected ==
  /\ pc = "idle"
  /\ em_state # "NULL"
  /\ pc' = "init_ret"
  /\ ret' = -1
  /\ call' = [NoCall EXCEPT !.op = "init", !.stage = "guard", !.errno = "EINVAL"]
  /\ UNCHANGED <<em_state, st, heap, openFds, samplerVars, android, osp, ipg, nInits, open0, lastRead>>

\* init with ENERGYMON_JETSON_RAIL_NAMES set: lines 459-486, 499
InitExplicit(FileSystems, Strings) ==
  /\ pc = "idle"
  /\ em_state = "NULL"
  /\ nInits < MaxInits
  /\ nInits' = nInits + 1
  /\ open0' = openFds
  /\ \E fsys \in FileSystems, str \in Strings, memok, callocok \in BOOLEAN :
     LET c  == [NoCall EXCEPT !.op = "init", !.fs = fsys, !.explicit = TRUE,
                              !.str = str]
         rn == get_rail_names(str, memok)
         w  == ina3221x_walk_i2c_drivers_dir(rn.names, Zeros(rn.n), rn.n, 0, openFds, fsys)
         cc == close_and_clear_fds(w.fds, w.open, rn.n)
     IN  IF ~rn.ok THEN InitFail(c, "parse", rn.errno, openFds, rn.heap)
         ELSE IF ~callocok
           THEN InitFail(c, "alloc", "ENOMEM", openFds, rn.heap \ {"names"})
         ELSE IF w.ret # 0
           THEN InitFail(c, "discovery", w.errno, cc.open, rn.heap \ {"names"})
         ELSE IF \E i \in 1..rn.n : w.fds[i] <= 0
           THEN InitFail(c, "discovery", "ENODEV", cc.open, rn.heap \ {"names"})
         ELSE /\ pc' = "init_resolve"
              /\ ret' = 0
              /\ em_state' = "S"
              /\ st' = [NewState(rn.n) EXCEPT !.fds = w.fds]
              /\ heap' = (rn.heap \cup {"state"}) \ {"names"}
              /\ openFds' = w.open
              /\ call' = [c EXCEPT !.n_rails = rn.n, !.polling_delay_us = w.dmax,
                                   !.names = rn.names]
  /\ UNCHANGED <<samplerVars, android, osp, ipg, lastRead>>

\* init without a rail list: lines 464-473; the walk of the profiles follows
InitDefault(FileSystems) ==
  /\ pc = "idle"
  /\ em_state = "NULL"
  /\ nInits < MaxInits
  /\ nInits' = nInits + 1
  /\ open0' = openFds
  /\ \E fsys \in FileSystems, callocok \in BOOLEAN :
     LET c == [NoCall EXCEPT !.op = "init", !.fs = fsys,
                             !.n_rails = NUM_RAILS_DEFAULT_MAX]
     IN  IF ~callocok THEN InitFail(c, "alloc", "ENOMEM", openFds, {})
         ELSE /\ pc' = "init_walk_default"
              /\ ret' = 0
              /\ st' = NewState(NUM_RAILS_DEFAULT_MAX)
              /\ heap' = {"state"}
              /\ call' = [c EXCEPT !.di = 1]
              /\ UNCHANGED <<em_state, openFds>>
  /\ UNCHANGED <<samplerVars, android, osp, ipg, lastRead>>

\* One turn of the loop of ina3221x_walk_i2c_drivers_dir_for_default (lines
\* 280-300) for profile call.di, with what init does when the function returns
\* (lines 488-499, 521-528).
DefaultWalkStep ==
  /\ pc = "init_walk_default"
  /\ LET prof  == DEFAULT_RAIL_NAMES[call.di]
         n_fds == Len(prof)
         w     == ina3221x_walk_i2c_drivers_dir(prof, st.fds, n_fds, call.polling_delay_us,
                                                openFds, call.fs)
         c     == [call EXCEPT !.n_rails = n_fds, !.polling_delay_us = w.dmax,
                                !.names = prof]
         cc    == close_and_clear_fds(w.fds, w.open, n_fds)
         all   == close_and_clear_fds(w.fds, w.open, st.count)
     IN  IF w.ret # 0 THEN InitFail(c, "discovery", w.errno, all.open, {})
         ELSE IF w.fds[1] > 0
           THEN /\ pc' = "init_resolve"
                /\ em_state' = "S"
                /\ IF \E j \in 1..n_fds : w.fds[j] <= 0
                   THEN st' = [st EXCEPT !.fds = cc.fds, !.count = n_fds] /\ openFds' = cc.open
                   ELSE st' = [st EXCEPT !.fds = w.fds, !.count = n_fds] /\ openFds' = w.open
                /\ call' = c
                /\ UNCHANGED <<ret, heap>>
         ELSE IF call.di < Len(DEFAULT_RAIL_NAMES)
           THEN /\ st' = [st EXCEPT !.fds = w.fds]
                /\ openFds' = w.open
                /\ call' = [c EXCEPT !.di = call.di + 1]
                /\ UNCHANGED <<pc, ret, em_state, heap>>
         ELSE InitFail(c, "discovery", "ENODEV", all.open, {})
  /\ UNCHANGED <<samplerVars, android, osp, ipg, nInits, open0, lastRead>>


\* lines 501-507: the interval; on 0, energymon_finish_jetson (no thread yet,
\* poll_sensors is 0) and -1
InitResolve(Envs) ==
  /\ pc = "init_resolve"
  /\ \E env \in Envs : \E parsed \in Parsed(env) :
     LET us == get_polling_delay_us(call.polling_delay_us, env, parsed)
         c  == [call EXCEPT !.fs = << >>, !.str = << >>, !.env = env,
                            !.joined = finish_joins(st)]
     IN  IF us = 0
         THEN InitFail(c, "interval", parsed.errno, finish_release(st, openFds), {})
         ELSE /\ pc' = "init_create"
              /\ st' = [st EXCEPT !.polling_delay_us = us]
              /\ call' = c
              /\ UNCHANGED <<ret, em_state, heap, openFds>>
  /\ UNCHANGED <<samplerVars, android, osp, ipg, nInits, open0, lastRead>>

\* lines 509-519: the thread.  When pthread_create fails, finish finds
\* poll_sensors set and cancels and joins state->thread, which no thread was
\* ever stored in: the process dies there, or both calls return an error.
InitCreateThread ==
  /\ pc = "init_create"
  /\ \E created \in BOOLEAN, ub \in {"crash", "error"} :
     IF created
     THEN /\ pc' = "init_ret"
          /\ ret' = 0
          /\ st' = [st EXCEPT !.poll_sensors = 1, !.thread = "T"]
          /\ pc_s' = "start"
          /\ call' = [call EXCEPT !.thread_created = TRUE]
          /\ UNCHANGED <<em_state, heap, openFds>>
     ELSE LET s == [st EXCEPT !.poll_sensors = 1]
              c == [call EXCEPT !.joined = finish_joins(s)]
          IN  IF ub = "crash"
              THEN /\ pc' = "crashed"
                   /\ st' = [st EXCEPT !.poll_sensors = 0]
                   /\ call' = [c EXCEPT !.stage = "thread", !.errno = "EAGAIN"]
                   /\ UNCHANGED <<ret, em_state, heap, openFds, pc_s>>
              ELSE /\ InitFail(c, "thread", "EAGAIN", finish_release(st, openFds), {})
                   /\ UNCHANGED pc_s
  /\ UNCHANGED <<smp, cancel_pending, ticks, hist, android, osp, ipg, nInits, open0, lastRead>>

\* the call that ended is over: the controlling thread is between calls
Return ==
  /\ pc \in {"init_ret", "finish_ret", "read_ret", "get_ret"}
  /\ pc' = "idle"
  /\ ret' = 0
  /\ call' = NoCall
  /\ UNCHANGED <<em_state, st, heap, openFds, samplerVars, android, osp, ipg, nInits, open0, lastRead>>

----------------------------------------------------------------------------
(* jetson_poll_sensors *)

ctrlVars == <<em_state, heap, openFds, pc, ret, call, android, osp, ipg, nInits, open0, lastRead>>

\* what pread of descriptor fd can give: "ok" with a value in mW, "eof"
\* (nothing read, errno untouched) or "err" (-1, errno set).  Descriptor 0 is
\* the standard input, which is no power file.
Eof == [kind |-> "eof", mw |-> 0]
Err == [kind |-> "err", mw |-> 0]
Ok(mw) == [kind |-> "ok", mw |-> mw]

PreadOutcomes(fd, open) ==
  IF fd \in DOMAIN open THEN {Ok(PowerOf(open[fd])), Eof, Err}
  ELSE IF fd = 0 THEN {Eof, Err}
  ELSE {Err}

\* the reads of this run that delivered no value
RECURSIVE Faults(_, _)
Faults(h, s) ==
  IF h = << >> THEN s.faults
  ELSE h[1].faults + Faults(Tail(h), s)

\* lines 316-322 without the sleep of line 321
SamplerStart_no_initial_sleep ==
  /\ pc_s = "start"
  /\ \E clockok \in BOOLEAN :
       IF clockok
       THEN /\ pc_s' = "check"
            /\ smp' = [smp EXCEPT !.late_sleeps = IF st.poll_sensors = 0 THEN 1 ELSE 0]
       ELSE /\ pc_s' = "done"
            /\ UNCHANGED smp
  /\ UNCHANGED <<st, cancel_pending, ticks, hist, ctrlVars>>

\* line 316: the time base; line 321: the call of the first sleep; no thread
\* work without a clock
SamplerStart ==
  /\ pc_s = "start"
  /\ \E clockok \in BOOLEAN :
       IF clockok
       THEN /\ pc_s' = "sleep_init"
            /\ smp' = [smp EXCEPT !.late_sleeps = IF st.poll_sensors = 0 THEN 1 ELSE 0]
       ELSE /\ pc_s' = "done"
            /\ UNCHANGED smp
  /\ UNCHANGED <<st, cancel_pending, ticks, hist, ctrlVars>>

\* lines 321 and 339: energymon_sleep_us returns (a cancellation point)
SamplerSleepEnd ==
  /\ pc_s \in {"sleep_init", "sleep"}
  /\ pc_s' = IF cancel_pending THEN "done" ELSE "check"
  /\ UNCHANGED <<st, smp, cancel_pending, ticks, hist, ctrlVars>>

\* line 322 as "while (1)"
SamplerCheck_ignores_flag(maxTicks) ==
  /\ pc_s = "check"
  /\ ticks < maxTicks
  /\ pc_s' = "read"
  /\ smp' = NewTick(smp)
  /\ UNCHANGED <<st, cancel_pending, ticks, hist, ctrlVars>>

\* line 322: the loop condition; line 324: the start of a tick
SamplerCheck(maxTicks) ==
  /\ pc_s = "check"
  /\ IF st.poll_sensors # 0
     THEN /\ ticks < maxTicks
          /\ pc_s' = "read"
          /\ smp' = NewTick(smp)
     ELSE /\ pc_s' = "done"
          /\ smp' = NewTick(smp)
  /\ UNCHANGED <<st, cancel_pending, ticks, hist, ctrlVars>>

\* lines 324-328: one pread (a cancellation point) and its strtoul
SamplerRead ==
  /\ pc_s = "read"
  /\ smp.i < st.count /\ smp.errno = "0"
  /\ IF cancel_pending
     THEN pc_s' = "done" /\ smp' = NewTick(smp)
     ELSE \E out \in PreadOutcomes(st.fds[smp.i + 1], openFds) :
          /\ out.kind # "ok" => (Faults(hist, smp) < MaxFaults \/ st.poll_sensors = 0)
          /\ pc_s' = "read"
          /\ smp' = [smp EXCEPT
                       !.i = smp.i + 1,
                       !.sum_mw = IF out.kind = "ok" THEN smp.sum_mw + out.mw ELSE smp.sum_mw,
                       !.errno = IF out.kind = "err" THEN "EIO" ELSE smp.errno,
                       !.faults = smp.faults + (IF out.kind = "ok" THEN 0 ELSE 1)]
  /\ UNCHANGED <<st, cancel_pending, ticks, hist, ctrlVars>>

\* what energymon_gettime_elapsed_us can return for a tick: the interval slept
\* and the time the tick ran late by
ElapsedChoices(polling_delay_us, late) == { polling_delay_us + l : l \in late }

\* line 335: the product and the quotient are computed in uint64_t
Accumulate(total_uj, sum_mw, exec_us) ==
  AddU64(total_uj, DivU64(MulU64(U64(exec_us), sum_mw), 1000))

\* lines 331-336 without the test of err_save
NextTotal_ignore_error(total_uj, sum_mw, exec_us, err_save) ==
  Accumulate(total_uj, sum_mw, exec_us)

\* lines 331-336 dividing the elapsed time before multiplying
NextTotal_divide_first(total_uj, sum_mw, exec_us, err_save) ==
  IF err_save # "0" THEN total_uj
  ELSE AddU64(total_uj, MulU64(DivU64(U64(exec_us), 1000), sum_mw))

\* lines 331-336: a tick with an error adds nothing
NextTotal(total_uj, sum_mw, exec_us, err_save) ==
  IF err_save # "0" THEN total_uj ELSE Accumulate(total_uj, sum_mw, exec_us)

\* lines 329-336: the elapsed time, then the total or the diagnostic (perror
\* writes to stderr: a cancellation point)
SamplerIntegrate(late) ==
  /\ pc_s = "read"
  /\ ~(smp.i < st.count /\ smp.errno = "0")
  /\ ticks' = ticks + 1
  /\ \E exec_us \in ElapsedChoices(st.polling_delay_us, late) :
       /\ hist' = Append(hist, [exec_us |-> exec_us, err |-> smp.errno # "0",
                                faults |-> smp.faults])
       /\ pc_s' = IF smp.errno # "0" /\ cancel_pending THEN "done" ELSE "check2"
       /\ st' = [st EXCEPT !.total_uj = NextTotal(st.total_uj, smp.sum_mw, exec_us, smp.errno)]
  /\ smp' = NewTick(smp)
  /\ UNCHANGED <<cancel_pending, ctrlVars>>

\* line 338: sleep if still running, else back to the loop condition
SamplerCheck2 ==
  /\ pc_s = "check2"
  /\ pc_s' = IF st.poll_sensors # 0 THEN "sleep_call" ELSE "check"
  /\ UNCHANGED <<st, smp, cancel_pending, ticks, hist, ctrlVars>>

\* line 339: the call of energymon_sleep_us, after the test of line 338
SamplerSleepCall ==
  /\ pc_s = "sleep_call"
  /\ pc_s' = "sleep"
  /\ smp' = [smp EXCEPT !.late_sleeps = IF st.poll_sensors = 0 THEN @ + 1 ELSE @]
  /\ UNCHANGED <<st, cancel_pending, ticks, hist, ctrlVars>>

----------------------------------------------------------------------------
(* energymon_finish_jetson, energymon_read_total_jetson *)

\* a join that does not wait
ThreadJoined_no_wait == TRUE

\* pthread_join returns once the thread has terminated
ThreadJoined == pc_s = "done"

\* finish without the test of em->state (line 532): it goes through the close
\* loop and the free again and reports success
FinishRejected_no_guard ==
  /\ pc = "idle"
  /\ em_state = "NULL"
  /\ pc' = "finish_ret"
  /\ ret' = 0
  /\ openFds' = finish_release(st, openFds)
  /\ heap' = heap \ {"state"}
  /\ call' = [NoCall EXCEPT !.op = "finish", !.stage = "guard"]
  /\ UNCHANGED <<em_state, st, samplerVars, android, osp, ipg, nInits, open0, lastRead>>

\* lines 532-535: finish on a handle that holds no state: EINVAL
FinishRejected ==
  /\ pc = "idle"
  /\ em_state = "NULL"
  /\ pc' = "finish_ret"
  /\ ret' = -1
  /\ call' = [NoCall EXCEPT !.op = "finish", !.stage = "guard", !.errno = "EINVAL"]
  /\ UNCHANGED <<em_state, st, heap, openFds, samplerVars, android, osp, ipg, nInits, open0, lastRead>>

\* finish clearing the total along with the flag, before the join
FinishBegin_clears_total ==
  /\ pc = "idle"
  /\ em_state # "NULL"
  /\ pc' = "finish_join"
  /\ call' = [NoCall EXCEPT !.op = "finish", !.stop_total = U64(0), !.prev = lastRead,
                            !.joined = finish_joins(st)]
  /\ st' = [st EXCEPT !.poll_sensors = 0, !.total_uj = U64(0)]
  /\ cancel_pending' = IF st.poll_sensors # 0 THEN ~android ELSE cancel_pending
  /\ UNCHANGED <<em_state, heap, openFds, ret, pc_s, smp, ticks, hist, android, osp, ipg, nInits, open0, lastRead>>

\* lines 532-546: the flag, the cancellation request
FinishBegin ==
  /\ pc = "idle"
  /\ em_state # "NULL"
  /\ pc' = "finish_join"
  /\ call' = [NoCall EXCEPT !.op = "finish", !.stop_total = st.total_uj,
                            !.prev = lastRead, !.joined = finish_joins(st)]
  /\ IF st.poll_sensors # 0
     THEN /\ st' = [st EXCEPT !.poll_sensors = 0]
          /\ cancel_pending' = ~android
     ELSE UNCHANGED <<st, cancel_pending>>
  /\ UNCHANGED <<em_state, heap, openFds, ret, pc_s, smp, ticks, hist, android, osp, ipg, nInits, open0, lastRead>>

\* lines 547-559: the join, then the descriptors and the block
FinishJoinClose ==
  /\ pc = "finish_join"
  /\ ThreadJoined
  /\ pc' = "finish_ret"
  /\ \E closeok \in (IF FinishClosed(st) = {} THEN {TRUE} ELSE BOOLEAN) :
       LET ok == closeok /\ ~finish_close_failed(st, openFds)
       IN  /\ ret' = IF ok THEN 0 ELSE -1
           /\ call' = [call EXCEPT !.close_ok = ok, !.errno = IF ok THEN "0" ELSE "EIO"]
  /\ openFds' = finish_release(st, openFds)
  /\ heap' = heap \ {"state"}
  /\ em_state' = "NULL"
  /\ st' = NoState
  /\ pc_s' = IF pc_s = "done" THEN "none" ELSE pc_s
  /\ smp' = NoSmp
  /\ cancel_pending' = FALSE
  /\ ticks' = 0
  /\ hist' = << >>
  /\ lastRead' = NoRead
  /\ UNCHANGED <<android, osp, ipg, nInits, open0>>

\* energymon_read_total_jetson with no state: 0 and EINVAL
ReadTotalRejected ==
  /\ pc = "idle"
  /\ em_state = "NULL"
  /\ pc' = "read_ret"
  /\ call' = [NoCall EXCEPT !.op = "read", !.errno = "EINVAL", !.prev = lastRead]
  /\ UNCHANGED <<em_state, st, heap, openFds, ret, samplerVars, android, osp, ipg, nInits,
                 open0, lastRead>>

\* line 568.  total_uj is a plain uint64_t that the sampler writes with no
\* synchronization: the load is one access where the machine word has 64 bits
\* and two accesses of 32 bits, in either order, where it has not.  This is
\* the first of the two; the load is one access when no write of the sampler
\* comes between this step and the next.
ReadTotal ==
  /\ pc = "idle"
  /\ em_state # "NULL"
  /\ pc' = "read_load"
  /\ \E first \in {"low", "high"} :
       call' = [NoCall EXCEPT !.op = "read", !.prev = lastRead, !.first = first,
                  !.value = IF first = "low"
                            THEN FromWords(LowWord(st.total_uj), HighWord(U64(0)))
                            ELSE FromWords(LowWord(U64(0)), HighWord(st.total_uj))]
  /\ UNCHANGED <<em_state, st, heap, openFds, ret, samplerVars, android, osp, ipg, nInits,
                 open0, lastRead>>

\* line 568: the other word, and the return
ReadTotalSecondWord ==
  /\ pc = "read_load"
  /\ pc' = "read_ret"
  /\ LET v == IF call.first = "low"
              THEN FromWords(LowWord(call.value), HighWord(st.total_uj))
              ELSE FromWords(LowWord(st.total_uj), HighWord(call.value))
     IN  /\ call' = [call EXCEPT !.value = v]
         /\ lastRead' = [valid |-> TRUE, value |-> v]
  /\ UNCHANGED <<em_state, st, heap, openFds, ret, samplerVars, android, osp, ipg, nInits, open0>>

\* energymon_get_interval_jetson (lines 575-581): 0 and EINVAL with no state,
\* else the interval of the block; errno is left alone then
GetInterval ==
  /\ pc = "idle"
  /\ pc' = "get_ret"
  /\ call' = IF em_state = "NULL"
             THEN [NoCall EXCEPT !.op = "get_interval", !.errno = "EINVAL"]
             ELSE [NoCall EXCEPT !.op = "get_interval",
                                 !.value = U64(st.polling_delay_us)]
  /\ UNCHANGED <<em_state, st, heap, openFds, ret, samplerVars, android, osp, ipg, nInits,
                 open0, lastRead>>

\* energymon_get_precision_jetson (lines 583-591): 0 and EINVAL with no state,
\* else the interval in milliseconds, 1 for an interval below one
GetPrecision ==
  /\ pc = "idle"
  /\ pc' = "get_ret"
  /\ LET prec == st.polling_delay_us \div 1000 IN
     call' = IF em_state = "NULL"
             THEN [NoCall EXCEPT !.op = "get_precision", !.errno = "EINVAL"]
             ELSE [NoCall EXCEPT !.op = "get_precision",
                                 !.value = IF prec # 0 THEN U64(prec) ELSE U64(1)]
  /\ UNCHANGED <<em_state, st, heap, openFds, ret, samplerVars, android, osp, ipg, nInits,
                 open0, lastRead>>

----------------------------------------------------------------------------
(* Part 2: the ODROID Smart Power backend (src/em-osp.c) *)

jetsonVars == <<em_state, st, heap, openFds, pc, ret, call, pc_s, smp, cancel_pending,
                android, nInits, open0, ticks, hist, lastRead>>

\* polls of the device followed in one run of osp_poll_device
MaxOspPolls == 2

\* power (W) the meter reports to the polling thread, energy (Wh) it reports
\* to read_total
OspWatts == {1, 2}
OspWattHours == {1, 2}

\* state: impl->state, "NULL" or "E" (the address malloc returned); block:
\* what is at that address; device: em->device ("unset": never assigned);
\* polling: the build defines ENERGYMON_OSP_USE_POLLING; thread: the polling
\* thread; freed_seen: the call in progress or just ended read or wrote the
\* block after free; after_release: it began with the block freed
NoOsp ==
  [state |-> "NULL", block |-> "none", device |-> "unset", polling |-> FALSE,
   do_polling |-> 0, thread |-> "none", total |-> 0, polls |-> 0,
   pc |-> "idle", op |-> "none", ret |-> 0, value |-> 0, stage |-> "none",
   freed_seen |-> FALSE, after_release |-> FALSE]

\* the fields of the call record at the start of a call
OspCall(op) ==
  [osp EXCEPT !.pc = "ret", !.op = op, !.ret = 0, !.value = 0, !.stage = "none",
              !.freed_seen = FALSE, !.after_release = (osp.block = "freed")]

\* energymon_finish_osp on a block that is live, after the test of line 228:
\* lines 232-262.  The polling build first stops and joins its thread (the
\* model takes the join as one step with the thread's last turn).
osp_finish_live(o) ==
  IF o.device # "open"
  THEN [o EXCEPT !.ret = 0]
  ELSE [o EXCEPT !.ret = 0, !.device = "NULL", !.block = "freed",
                 !.do_polling = 0,
                 !.thread = IF o.thread = "run" THEN "done" ELSE o.thread]



\* energymon_init_osp, lines 129-193.  fail: the step that fails, "none" for
\* a successful call.  When pthread_create fails, finish (line 187) joins
\* osp_polling_thread, which malloc left without a value: the process dies
\* there (ub = "dies") or the join returns an error.
OspInit ==
  /\ osp.pc = "idle"
  /\ \E fail \in {"none", "malloc", "hid_init", "hid_open", "status", "startstop",
                  "data", "thread"},
        ub \in (IF osp.state = "NULL" /\ osp.polling THEN {"dies", "goes_on"}
                ELSE {"goes_on"}) :
     LET c == OspCall("init")
         e == [c EXCEPT !.state = "E", !.block = "live", !.device = "unset",
                        !.do_polling = 0, !.thread = "none", !.total = 0, !.polls = 0]
         d == [e EXCEPT !.device = "open"]
     IN  /\ fail = "thread" => osp.polling
         /\ osp' =
              IF osp.state # "NULL" THEN [c EXCEPT !.ret = -1, !.stage = "guard"]
              ELSE IF fail = "thread" /\ ub = "dies"
                THEN [d EXCEPT !.do_polling = 0, !.pc = "crashed", !.stage = fail]
              ELSE IF fail = "malloc" THEN [c EXCEPT !.ret = -1, !.stage = fail]
              ELSE IF fail = "hid_init" THEN [e EXCEPT !.ret = -1, !.stage = fail]
              ELSE IF fail = "hid_open"
                THEN [e EXCEPT !.device = "NULL", !.ret = -1, !.stage = fail]
              ELSE IF fail \in {"status", "startstop", "data"}
                THEN [osp_finish_live(d) EXCEPT !.ret = -1, !.stage = fail]
              ELSE IF fail = "thread"
                THEN [osp_finish_live([d EXCEPT !.do_polling = 1]) EXCEPT
                        !.ret = -1, !.stage = fail]
              ELSE IF osp.polling
                THEN [d EXCEPT !.do_polling = 1, !.thread = "run", !.stage = "done"]
              ELSE [d EXCEPT !.stage = "done"]
  /\ UNCHANGED <<jetsonVars, ipg>>

\* one turn of the loop of osp_poll_device, lines 111-124
OspPoll ==
  /\ osp.thread = "run"
  /\ osp.block = "live"
  /\ osp.do_polling > 0 /\ osp.device = "open"
  /\ osp.polls < MaxOspPolls
  /\ \E w \in OspWatts \cup {0} :
       osp' = [osp EXCEPT !.total = osp.total + w, !.polls = osp.polls + 1]
  /\ UNCHANGED <<jetsonVars, ipg>>

\* what a read of em->device gives when the field was never assigned or the
\* block is freed: NULL (what line 257 stored before the free), or something
\* else, and then the call dies in the HID library or in free, or goes on
IndeterminateDevice == {"null", "dies", "goes_on"}

\* energymon_finish_osp, lines 227-263.  With the block freed the test of line
\* 234 reads freed memory; past it the call closes a closed device and frees
\* the block a second time.
OspFinish ==
  /\ osp.pc = "idle"
  /\ LET c == OspCall("finish") IN
     \E seen \in IndeterminateDevice :
       osp' =
         IF osp.state = "NULL" THEN [c EXCEPT !.ret = -1, !.stage = "guard"]
         ELSE IF osp.block = "freed" \/ osp.device = "unset"
           THEN LET f == [c EXCEPT !.freed_seen = (osp.block = "freed")] IN
                CASE seen = "null" -> [f EXCEPT !.ret = 0]
                  [] seen = "dies" -> [f EXCEPT !.pc = "crashed"]
                  [] OTHER -> [f EXCEPT !.ret = 0, !.device = "NULL", !.block = "freed"]
         ELSE osp_finish_live(c)
  /\ UNCHANGED <<jetsonVars, ipg>>

\* energymon_read_total_osp, lines 195-225.  With the block freed the test of
\* line 203 reads freed memory, as in finish; past it the call writes to the
\* freed buffer and to a closed device.
OspReadTotal ==
  /\ osp.pc = "idle"
  /\ LET c == OspCall("read") IN
     \E seen \in IndeterminateDevice, wh \in OspWattHours \cup {0} :
       osp' =
         IF osp.state = "NULL" THEN [c EXCEPT !.value = 0, !.stage = "guard"]
         ELSE IF osp.block = "freed" \/ osp.device = "unset"
           THEN LET f == [c EXCEPT !.freed_seen = (osp.block = "freed")] IN
                CASE seen = "null" -> [f EXCEPT !.value = 0]
                  [] seen = "dies" -> [f EXCEPT !.pc = "crashed"]
                  [] OTHER -> [f EXCEPT !.value = IF osp.polling THEN osp.total ELSE wh]
         ELSE IF osp.device = "NULL" THEN [c EXCEPT !.value = 0]
         ELSE IF osp.polling THEN [c EXCEPT !.value = osp.total]
         ELSE [c EXCEPT !.value = wh]
  /\ UNCHANGED <<jetsonVars, ipg>>

\* the call that ended is over
OspReturn ==
  /\ osp.pc = "ret"
  /\ osp' = [osp EXCEPT !.pc = "idle", !.op = "none", !.ret = 0, !.value = 0,
                        !.stage = "none", !.freed_seen = FALSE, !.after_release = FALSE]
  /\ UNCHANGED <<jetsonVars, ipg>>

----------------------------------------------------------------------------
(* Part 3: the raplcap-ipg backend (raplcap-ipg/energymon-raplcap-ipg.c) *)

\* most packages, most dies of a package
MaxPkg == 2
MaxDie == 2

\* most overflows a slot has counted when a read_total begins
MaxOverflow == 1

\* line 111: the counter maximum assumed when the library cannot tell it
IPG_TEST_MAX_J == 1000000000

\* what raplcap_pd_get_energy_counter delivers, in J, and the maximum
\* raplcap_pd_get_energy_counter_max reports for such a counter
IpgJoules == {0, 1}
IpgCounterMax == 2

\* what raplcap_get_num_die reports per package (0: the library cannot tell,
\* errno ENOSYS), packages numbered from 1
IpgTopologies ==
  UNION { [1..n -> 0..MaxDie] : n \in 1..MaxPkg }

\* lines 24-28: one raplcap_ipg_info as calloc leaves it
NoInfo == [j_last |-> 0, j_max |-> 0, n_overflow |-> 0]

\* state: em->state; hw: the machine; n_pkg, n_die, n_msrs, msrs: the block;
\* value: what read_total returned; last: per zone (in the order of the loops,
\* from 1) the latest reading before the call in progress; cur: the readings
\* of that call (-1: none); rose: the zones at which it raised n_overflow
NoIpg ==
  [state |-> "NULL", hw |-> << >>, n_pkg |-> 0, n_die |-> 0, n_msrs |-> 0,
   msrs |-> << >>, pc |-> "idle", op |-> "none", ret |-> 0, errno |-> "0",
   value |-> U64(0), last |-> << >>, cur |-> << >>, rose |-> {}]

\* lines 94 and 146: the slot of a package and a die (both numbered from 0)
IpgIndex(pkg, die) == pkg * die + die

\* the package and the die the loops of lines 92-93 and 144-145 reach at their
\* k-th pass, k from 1
ZonePkg(k, n_die) == (k - 1) \div n_die
ZoneDie(k, n_die) == (k - 1) % n_die
ZoneSlot(k, n_die) == IpgIndex(ZonePkg(k, n_die), ZoneDie(k, n_die))

\* lines 59-67: the dies of package p, 1 when the library cannot tell
NumDie(hw, p) == IF hw[p] = 0 THEN 1 ELSE hw[p]

\* lines 58-75: every package has as many dies as the first
Homogeneous(hw) == \A p \in 1..Len(hw) : NumDie(hw, p) = NumDie(hw, 1)

\* what the library calls of init can do: all succeed ("ok"), all succeed but
\* the counter maximum is unknown with ENOSYS ("max_unknown"), or one fails
IpgInitOutcomes ==
  {"ok", "max_unknown", "no_packages", "no_dies", "no_memory", "raplcap_init",
   "zone_error", "zone_unsupported", "max_error"}

\* lines 92-118: the k-th and later passes of the loops store the maximum
RECURSIVE init_loop(_, _, _, _, _)
init_loop(k, nz, n_die, j_max, msrs) ==
  IF k > nz THEN msrs
  ELSE init_loop(k + 1, nz, n_die, j_max,
                 [msrs EXCEPT ![ZoneSlot(k, n_die)].j_max = j_max])

IpgFail(op, errno) ==
  ipg' = [ipg EXCEPT !.pc = "ret", !.op = op, !.ret = -1, !.errno = errno]

\* lines 38-131
energymon_init_raplcap_ipg ==
  /\ ipg.pc = "idle"
  /\ IF ipg.state # "NULL" THEN IpgFail("init", "EINVAL")
     ELSE \E out \in IpgInitOutcomes :
       LET n_pkg  == Len(ipg.hw)
           n_die  == NumDie(ipg.hw, n_pkg)
           n_msrs == n_pkg * n_die
           j_max  == IF out = "max_unknown" THEN IPG_TEST_MAX_J ELSE IpgCounterMax
       IN  IF out = "no_packages" THEN IpgFail("init", "ENOENT")
           ELSE IF out = "no_dies" THEN IpgFail("init", "EIO")
           ELSE IF ~Homogeneous(ipg.hw) THEN IpgFail("init", "ENOSYS")
           ELSE IF out = "no_memory" THEN IpgFail("init", "ENOMEM")
           ELSE IF out \in {"raplcap_init", "zone_error", "max_error"}
             THEN IpgFail("init", "EIO")
           ELSE IF out = "zone_unsupported" THEN IpgFail("init", "EINVAL")
           ELSE ipg' = [ipg EXCEPT
                  !.pc = "ret", !.op = "init", !.ret = 0, !.state = "S",
                  !.n_pkg = n_pkg, !.n_die = n_die, !.n_msrs = n_msrs,
                  !.msrs = init_loop(1, n_msrs, n_die, j_max,
                                     [i \in 0..(n_msrs - 1) |-> NoInfo]),
                  !.last = [k \in 1..n_msrs |-> 0],
                  !.cur = [k \in 1..n_msrs |-> -1]]
  /\ UNCHANGED <<jetsonVars, osp>>

\* line 152: (j + n_overflow * j_max) * 1000000.0 as uint64_t
ZoneMicrojoules(j, info) ==
  MulU64(MulU64(AddU64(U64(j), MulU64(U64(info.j_max), info.n_overflow)), 1000), 1000)

\* lines 144-155: the k-th and later passes of the loops, r the readings
\* (below 0: the call failed and set errno)
RECURSIVE read_loop(_, _, _, _, _)
read_loop(k, nz, n_die, r, acc) ==
  IF k > nz \/ acc.errno # "0" THEN acc
  ELSE LET i    == ZoneSlot(k, n_die)
           j    == r[k]
           over == j < acc.msrs[i].j_last
           info == [acc.msrs[i] EXCEPT
                      !.n_overflow = IF over THEN @ + 1 ELSE @,
                      !.j_last = j]
       IN  IF j < 0
           THEN read_loop(k + 1, nz, n_die, r, [acc EXCEPT !.errno = "EIO"])
           ELSE read_loop(k + 1, nz, n_die, r,
                  [acc EXCEPT !.msrs[i] = info,
                              !.total = AddU64(@, ZoneMicrojoules(j, info)),
                              !.cur[k] = j,
                              !.rose = IF over THEN @ \cup {k} ELSE @])

\* the readings of one read_total: every call delivers a value, or one fails
IpgReadings(nz) ==
  { [k \in 1..nz |-> IF k = f THEN -1 ELSE v[k]] :
      v \in [1..nz -> IpgJoules], f \in 0..nz }

\* lines 133-157
energymon_read_total_raplcap_ipg ==
  /\ ipg.pc = "idle"
  /\ IF ipg.state = "NULL"
     THEN ipg' = [ipg EXCEPT !.pc = "ret", !.op = "read", !.errno = "EINVAL",
                             !.value = U64(0)]
     ELSE /\ \A i \in DOMAIN ipg.msrs : ipg.msrs[i].n_overflow <= MaxOverflow
          /\ \E r \in IpgReadings(ipg.n_msrs) :
               LET acc == read_loop(1, ipg.n_msrs, ipg.n_die, r,
                            [msrs |-> ipg.msrs, total |-> U64(0), errno |-> "0",
                             cur |-> [k \in 1..ipg.n_msrs |-> -1], rose |-> {}])
               IN  ipg' = [ipg EXCEPT
                      !.pc = "ret", !.op = "read", !.errno = acc.errno,
                      !.msrs = acc.msrs, !.cur = acc.cur, !.rose = acc.rose,
                      !.value = IF acc.errno # "0" THEN U64(0) ELSE acc.total]
  /\ UNCHANGED <<jetsonVars, osp>>

\* lines 159-172: raplcap_destroy can fail; the block is freed all the same
energymon_finish_raplcap_ipg ==
  /\ ipg.pc = "idle"
  /\ IF ipg.state = "NULL" THEN IpgFail("finish", "EINVAL")
     ELSE \E destroyed \in BOOLEAN :
       ipg' = [NoIpg EXCEPT !.hw = ipg.hw, !.pc = "ret", !.op = "finish",
                            !.ret = IF destroyed THEN 0 ELSE -1,
                            !.errno = IF destroyed THEN "0" ELSE "EIO"]
  /\ UNCHANGED <<jetsonVars, osp>>

\* the call that ended is over; the readings it took are now the latest
IpgReturn ==
  /\ ipg.pc = "ret"
  /\ ipg' = [ipg EXCEPT
        !.pc = "idle", !.op = "none", !.ret = 0, !.errno = "0", !.value = U64(0),
        !.rose = {},
        !.last = [k \in DOMAIN ipg.last |-> IF ipg.cur[k] >= 0 THEN ipg.cur[k] ELSE @[k]],
        !.cur = [k \in DOMAIN ipg.cur |-> -1]]
  /\ UNCHANGED <<jetsonVars, osp>>

----------------------------------------------------------------------------
(* Specification *)

\* the Jetson handle as energymon_get_jetson leaves it (line 609), no call made
InitJetson ==
  /\ em_state = "NULL"
  /\ st = NoState
  /\ heap = {}
  /\ openFds = << >>
  /\ pc = "idle"
  /\ ret = 0
  /\ call = NoCall
  /\ pc_s = "none"
  /\ smp = NoSmp
  /\ cancel_pending = FALSE
  /\ android \in BOOLEAN
  /\ nInits = 0
  /\ open0 = << >>
  /\ ticks = 0
  /\ hist = << >>
  /\ lastRead = NoRead

Init ==
  /\ InitJetson
  /\ osp = NoOsp
  /\ ipg = NoIpg

\* inputs of the life cycle specification: every sysfs tree and rail list of
\* the bounds, one tick of the sampler per run, every tick on time
LifeTicks == 1
OnTime == {0}

Next ==
  \/ InitRejected
  \/ InitExplicit(ExplicitFileSystems, RailNameStrings)
  \/ InitDefault(DefaultFileSystems)
  \/ DefaultWalkStep
  \/ InitResolve(IntervalEnvs)
  \/ InitCreateThread
  \/ Return
  \/ SamplerStart
  \/ SamplerSleepEnd
  \/ SamplerCheck(LifeTicks)
  \/ SamplerRead
  \/ SamplerIntegrate(OnTime)
  \/ SamplerCheck2
  \/ SamplerSleepCall
  \/ FinishRejected
  \/ FinishBegin
  \/ FinishJoinClose
  \/ ReadTotalRejected
  \/ ReadTotal
  \/ ReadTotalSecondWord

Spec == Init /\ [][Next]_vars

----------------------------------------------------------------------------
(* The sampler specification: a few configurations of a build with
   pthread_cancel, every tick input *)

ZeroDelays == [n \in RailNames |-> 0]

RunStrings == { <<"GPU", "CPU", "SOC">> }
LateBy == {0, 1}
RunExplicitFileSystems == { MkFs(ExplicitNames, ZeroDelays, 1) }
RunDefaultFileSystems == { MkFs({"VDD_IN"}, ZeroDelays, 1), MkFs({"POM_5V_IN"}, ZeroDelays, 1) }
RunEnvs == { NoEnv, [set |-> TRUE, text |-> "2000000000"] }

NextRun ==
  \/ InitRejected
  \/ InitExplicit(RunExplicitFileSystems, RunStrings)
  \/ InitDefault(RunDefaultFileSystems)
  \/ DefaultWalkStep
  \/ InitResolve(RunEnvs)
  \/ InitCreateThread
  \/ Return
  \/ SamplerStart
  \/ SamplerSleepEnd
  \/ SamplerCheck(MaxTicks)
  \/ SamplerRead
  \/ SamplerIntegrate(LateBy)
  \/ SamplerCheck2
  \/ SamplerSleepCall
  \/ FinishRejected
  \/ FinishBegin
  \/ FinishJoinClose
  \/ ReadTotalRejected
  \/ ReadTotal
  \/ ReadTotalSecondWord

InitRun == Init /\ ~android

SpecRun == InitRun /\ [][NextRun]_vars

----------------------------------------------------------------------------
(* The stop specification: the configurations of the sampler specification on
   both builds, one tick on time per run, the sampler thread scheduled fairly
   and the controlling thread going on once its join can return *)

\* a step of the sampler thread
Sampler(maxTicks, late) ==
  \/ SamplerStart
  \/ SamplerSleepEnd
  \/ SamplerCheck(maxTicks)
  \/ SamplerRead
  \/ SamplerIntegrate(late)
  \/ SamplerCheck2
  \/ SamplerSleepCall

NextStop ==
  \/ InitRejected
  \/ InitExplicit(RunExplicitFileSystems, RunStrings)
  \/ InitDefault(RunDefaultFileSystems)
  \/ DefaultWalkStep
  \/ InitResolve(RunEnvs)
  \/ InitCreateThread
  \/ Return
  \/ SamplerStart
  \/ SamplerSleepEnd
  \/ SamplerCheck(LifeTicks)
  \/ SamplerRead
  \/ SamplerIntegrate(OnTime)
  \/ SamplerCheck2
  \/ SamplerSleepCall
  \/ FinishRejected
  \/ FinishBegin
  \/ FinishJoinClose
  \/ ReadTotalRejected
  \/ ReadTotal
  \/ ReadTotalSecondWord

SpecStop ==
  /\ Init
  /\ [][NextStop]_vars
  /\ WF_vars(Sampler(LifeTicks, OnTime))
  /\ WF_vars(FinishJoinClose)

----------------------------------------------------------------------------
(* The interface specification: every function of the interface on a build
   with pthread_cancel, three rails from a list or one from a profile, the
   long interval, every tick on time *)

ApiDefaultFileSystems == { MkFs({"POM_5V_IN"}, ZeroDelays, 1) }
ApiEnvs == { [set |-> TRUE, text |-> "2000000000"] }

NextApi ==
  \/ InitRejected
  \/ InitExplicit(RunExplicitFileSystems, RunStrings)
  \/ InitDefault(ApiDefaultFileSystems)
  \/ DefaultWalkStep
  \/ InitResolve(ApiEnvs)
  \/ InitCreateThread
  \/ Return
  \/ SamplerStart
  \/ SamplerSleepEnd
  \/ SamplerCheck(MaxTicks)
  \/ SamplerRead
  \/ SamplerIntegrate(OnTime)
  \/ SamplerCheck2
  \/ SamplerSleepCall
  \/ FinishRejected
  \/ FinishBegin
  \/ FinishJoinClose
  \/ ReadTotalRejected
  \/ ReadTotal
  \/ ReadTotalSecondWord
  \/ GetInterval
  \/ GetPrecision

SpecApi == InitRun /\ [][NextApi]_vars

----------------------------------------------------------------------------
(* The specification of the ODROID Smart Power backend: both builds, every
   step of init failing or not *)

InitOsp ==
  /\ InitJetson /\ ~android
  /\ ipg = NoIpg
  /\ \E b \in BOOLEAN : osp = [NoOsp EXCEPT !.polling = b]

NextOsp ==
  \/ OspInit
  \/ OspPoll
  \/ OspFinish
  \/ OspReadTotal
  \/ OspReturn

SpecOsp == InitOsp /\ [][NextOsp]_vars

----------------------------------------------------------------------------
(* The raplcap-ipg specification: init, read_total and finish on machines of
   up to MaxPkg packages *)

InitIpg ==
  /\ InitJetson /\ ~android
  /\ osp = NoOsp
  /\ \E hw \in IpgTopologies : ipg = [NoIpg EXCEPT !.hw = hw]

NextIpg ==
  \/ energymon_init_raplcap_ipg
  \/ energymon_read_total_raplcap_ipg
  \/ energymon_finish_raplcap_ipg
  \/ IpgReturn

SpecIpg == InitIpg /\ [][NextIpg]_vars

----------------------------------------------------------------------------
(* The discovery specification: init up to the resolved interval, over sysfs
   trees with entries that fail, that are skipped and that repeat a name *)

\* longest sequence of entries the walk meets
MaxWalk == 3

\* what the walk can meet: channels of rails (a delay in ms each), a channel
\* whose power file cannot be opened, a channel without a rail-name file, one
\* whose rail-name file cannot be read, an entry that is no bus or device
\* directory, a bus directory that cannot be opened
WalkEntries ==
  { Channel("GPU", 200), Channel("CPU", 1), Channel("SOC", 500),
    Channel("VDD_IN", 1), Channel("POM_5V_IN", 0),
    [Channel("GPU", 200) EXCEPT !.power_ok = FALSE],
    [Channel("", 0) EXCEPT !.name_status = "enoent"],
    [Channel("", 0) EXCEPT !.name_status = "eio"],
    [Channel("", 0) EXCEPT !.name_status = "other"],
    [Channel("", 0) EXCEPT !.name_status = "nobus"] }

WalkFileSystems == SeqsUpTo(WalkEntries, MaxWalk)
WalkStrings == { <<"GPU">>, <<"GPU", "CPU">> }

NextWalk ==
  \/ InitExplicit(WalkFileSystems, WalkStrings)
  \/ InitDefault(WalkFileSystems)
  \/ DefaultWalkStep
  \/ InitResolve({NoEnv})
  \/ Return

SpecWalk == InitRun /\ [][NextWalk]_vars

----------------------------------------------------------------------------
(* Properties of initialization and discovery *)

\* a call of init that passed the state check has just returned r
InitReturned(r) ==
  pc = "init_ret" /\ call.op = "init" /\ call.stage # "guard" /\ ret = r

\* the walk of the default profiles has ended, with or without a selection
DefaultDiscoveryDone ==
  /\ call.op = "init" /\ ~call.explicit
  /\ \/ pc = "init_resolve"
     \/ pc = "init_ret" /\ call.stage = "discovery"

\* every rail of profile p has a readable channel in fs
FullyPresent(fs, p) ==
  \A j \in 1..Len(DEFAULT_RAIL_NAMES[p]) :
    \E k \in 1..Len(fs) : fs[k].name = DEFAULT_RAIL_NAMES[p][j] /\ fs[k].name_status = "ok"

SomePresent(fs, p) ==
  \E j \in 1..Len(DEFAULT_RAIL_NAMES[p]) :
    \E k \in 1..Len(fs) : fs[k].name = DEFAULT_RAIL_NAMES[p][j] /\ fs[k].name_status = "ok"

\* slot i of the block holds an open descriptor of the power file of rail name
HoldsRail(i, name) ==
  /\ st.fds[i] > 0
  /\ st.fds[i] \in DOMAIN openFds
  /\ openFds[st.fds[i]] = name

\* C1: whenever init returns -1 after failing at one of its stages (rail-name
\* parsing, state allocation, discovery, interval resolution, thread
\* creation), em->state is NULL, the descriptor table is what it was before the
\* call, nothing allocated by the call is live and no sampler thread exists.
C1_FailedInitLeavesNothing ==
  InitReturned(-1) =>
    /\ em_state = "NULL"
    /\ openFds = open0
    /\ heap = {}
    /\ pc_s = "none"

\* C2: after a successful init, when finish has returned, every descriptor
\* opened by that init is closed again: the descriptor table is what it was
\* before the init.
C2_FinishClosesAllOpened ==
  (pc = "finish_ret" /\ call.op = "finish" /\ call.stage # "guard") => openFds = open0

\* C3: without a rail list, when some profile has all its rails in sysfs,
\* discovery succeeds with the lowest such profile: the count is its size and
\* slot j holds the descriptor of its j-th rail.
C3_LowestFullProfileSelected ==
  (DefaultDiscoveryDone /\ \E p \in 1..Len(DEFAULT_RAIL_NAMES) : FullyPresent(call.fs, p)) =>
    LET sel == CHOOSE p \in 1..Len(DEFAULT_RAIL_NAMES) :
                 /\ FullyPresent(call.fs, p)
                 /\ \A q \in 1..(p - 1) : ~FullyPresent(call.fs, q)
    IN  /\ pc = "init_resolve"
        /\ call.di = sel
        /\ st.count = Len(DEFAULT_RAIL_NAMES[sel])
        /\ \A j \in 1..st.count : HoldsRail(j, DEFAULT_RAIL_NAMES[sel][j])

\* C4: when a profile matched only some of its rails, its descriptors are
\* closed and its slots cleared before the next profile is walked, and the
\* walk goes on with the next profile: no slot is set and no descriptor of the
\* call is open when a later profile is about to be walked, and a profile the
\* walk returns with has all its rails.
C4_PartialProfileDiscarded ==
  /\ (pc = "init_walk_default" /\ call.di > 1) =>
       /\ \A j \in 1..Len(st.fds) : st.fds[j] = 0
       /\ openFds = open0
  /\ (pc = "init_resolve" /\ ~call.explicit) => FullyPresent(call.fs, call.di)

\* C5: whenever init returns 0 the count is the number of rails asked for (the
\* list, or the selected profile) and slot i holds an open descriptor of the
\* power file of the i-th of them; the sampler never runs on a block with an
\* empty slot below count.
C5_SuccessMeansAllRailsOpen ==
  /\ InitReturned(0) =>
       /\ st.count = Len(call.names)
       /\ \A i \in 1..st.count : HoldsRail(i, call.names[i])
  /\ pc_s # "none" => \A i \in 1..st.count : st.fds[i] > 0

----------------------------------------------------------------------------
(* Properties of the sampler *)

\* the power (mW) the descriptors of the block show together
RECURSIVE SumPower(_)
SumPower(i) ==
  IF i = 0 THEN 0
  ELSE SumPower(i - 1)
       + (IF st.fds[i] \in DOMAIN openFds THEN PowerOf(openFds[st.fds[i]]) ELSE 0)

\* floor(sum_mw * exec_us / 1000), as the quotient and the remainder of exec_us
\* by 1000 give it
EnergyOfTick(sum_mw, exec_us) ==
  AddU64(MulU64(U64(exec_us \div 1000), sum_mw),
         U64((sum_mw * (exec_us % 1000)) \div 1000))

\* the energy (uJ) of ticks 1..k of this run, each tick without an error
\* counted with all rails, each tick with an error counted as nothing
RECURSIVE TickEnergy(_)
TickEnergy(k) ==
  IF k = 0 THEN U64(0)
  ELSE AddU64(TickEnergy(k - 1),
              IF hist[k].err THEN U64(0)
              ELSE EnergyOfTick(SumPower(st.count), hist[k].exec_us))

\* C6: while the monitor runs, read_total never returns less than the read
\* before it returned.
C6_ReadsNeverDecrease ==
  (pc = "read_ret" /\ call.op = "read" /\ call.errno = "0" /\ call.prev.valid) =>
    LeqU64(call.prev.value, call.value)

\* C7: a tick with a failed read adds nothing to the total and does not end the
\* thread: with every tick either clean or failed, the total is the energy of
\* the clean ticks alone, those after a failed tick included, and while
\* poll_sensors is set the thread has not terminated after a tick.
C7_FailedTickSkipped ==
  /\ (em_state = "S" /\ \A t \in 1..Len(hist) : hist[t].faults > 0 => hist[t].err) =>
       st.total_uj = TickEnergy(Len(hist))
  /\ (pc_s = "done" /\ st.poll_sensors # 0) => hist = << >>

C7_Witness ==
  /\ em_state = "S" /\ st.poll_sensors # 0 /\ pc_s = "check2"
  /\ st.total_uj # U64(0)
  /\ \E t \in 1..(Len(hist) - 1) : hist[t].err /\ hist[t + 1].faults = 0

\* C8: after a successful init the interval is at least
\* INA3221_MIN_POLLING_DELAY_US, whatever the override and the delays in sysfs.
C8_IntervalAtLeastMinimum ==
  InitReturned(0) => st.polling_delay_us >= INA3221_MIN_POLLING_DELAY_US

C8_Witness ==
  /\ InitReturned(0)
  /\ call.env.set /\ call.env.text = "0"
  /\ st.polling_delay_us = INA3221_MIN_POLLING_DELAY_US

\* the block holds the descriptors of GPU, CPU and SOC and went through three
\* ticks of 100000 us without an error
ThreeRailsThreeTicks ==
  /\ em_state = "S" /\ st.count = 3
  /\ HoldsRail(1, "GPU") /\ HoldsRail(2, "CPU") /\ HoldsRail(3, "SOC")
  /\ Len(hist) = 3
  /\ \A t \in 1..3 : hist[t].faults = 0 /\ hist[t].exec_us = 100000

\* C9: with no read error, after k ticks the total is the sum over the ticks of
\* floor(sum of all rails' mW * elapsed us / 1000); GPU 500, CPU 300 and SOC 200
\* mW at 100000 us a tick give 300000 uJ after 3 ticks.
C9_TotalIsSumOfTicks ==
  /\ (em_state = "S" /\ \A t \in 1..Len(hist) : hist[t].faults = 0) =>
       st.total_uj = TickEnergy(Len(hist))
  /\ ThreeRailsThreeTicks => st.total_uj = U64(300000)

C9_Witness == ThreeRailsThreeTicks /\ st.total_uj = U64(300000)

\* C10: as long as the sampler thread has not terminated, the state block is
\* allocated and every descriptor in its slots is open: finish closes and frees
\* only after the join.
C10_NoCloseBeforeJoin ==
  pc_s \notin {"none", "done"} =>
    /\ em_state = "S"
    /\ "state" \in heap
    /\ \A i \in 1..st.count : st.fds[i] > 0 => st.fds[i] \in DOMAIN openFds

C10_Witness ==
  pc = "finish_join" /\ pc_s = "read" /\ smp.i > 0 /\ st.poll_sensors = 0

----------------------------------------------------------------------------
(* Properties of the stop *)

\* finish has cleared poll_sensors and waits in the join
FlagCleared == pc = "finish_join" /\ em_state = "S" /\ st.poll_sensors = 0

\* C11: once finish has cleared poll_sensors the sampler adds nothing more:
\* when the thread has terminated, total_uj is what it was when the flag was
\* cleared.
C11_NoAccumulationAfterStop ==
  (FlagCleared /\ pc_s = "done") => st.total_uj = call.stop_total

\* C12: with the sampler thread scheduled fairly, once finish has cleared
\* poll_sensors the thread terminates and finish returns, wherever the thread was
\* (first sleep, sleep of a tick, read, integration), and the thread calls
\* energymon_sleep_us at most once with the flag already cleared.
C12_StopTerminates ==
  /\ [](smp.late_sleeps <= 1)
  /\ FlagCleared ~> (pc = "finish_ret")

C12_Witness == FlagCleared /\ pc_s = "done" /\ smp.late_sleeps = 1 /\ ticks > 0

\* C13: without a usable clock the initialization is aborted: init never
\* returns 0 for a monitor whose flag is set and whose sampler thread has
\* already ended for want of a clock.
C13_NoClockAbortsInit ==
  ~(/\ em_state = "S" /\ st.poll_sensors # 0
    /\ pc \in {"init_ret", "idle"} /\ (pc = "init_ret" => ret = 0)
    /\ pc_s = "done" /\ hist = << >>)

----------------------------------------------------------------------------
(* Properties of the life cycle *)

\* C14: init on a handle that holds a state returns -1 with EINVAL and changes
\* nothing: the block, its descriptors, interval and total, the descriptor
\* table, the allocations and the sampler thread stay as they are.
C14_ReinitRejected ==
  [][(pc = "idle" /\ em_state # "NULL" /\ call'.op = "init") =>
       /\ pc' = "init_ret" /\ ret' = -1 /\ call'.errno = "EINVAL"
       /\ UNCHANGED <<em_state, st, heap, openFds, samplerVars>>]_vars

C14_Witness ==
  /\ pc = "init_ret" /\ call.op = "init" /\ call.stage = "guard" /\ ret = -1
  /\ em_state = "S" /\ pc_s \notin {"none", "done"} /\ st.total_uj # U64(0)

\* C15: finish on a handle that holds no state (never initialized, init
\* failed, or already finalized) returns -1 with EINVAL and changes nothing; a
\* failed init and a finish both leave the handle without state, so a finish
\* that follows them is rejected.
C15_FinishRejected ==
  /\ [][(pc = "idle" /\ em_state = "NULL" /\ call'.op = "finish") =>
          /\ pc' = "finish_ret" /\ ret' = -1 /\ call'.errno = "EINVAL"
          /\ UNCHANGED <<em_state, st, heap, openFds, samplerVars>>]_vars
  /\ [](InitReturned(-1) => em_state = "NULL")
  /\ [](pc = "finish_ret" => em_state = "NULL" /\ "state" \notin heap)

C15_Witness ==
  /\ pc = "finish_ret" /\ call.op = "finish" /\ call.stage = "guard" /\ ret = -1
  /\ nInits > 0

\* a call of finish that passed the state check has just returned
FinishReturned == pc = "finish_ret" /\ call.op = "finish" /\ call.stage # "guard"

\* C16: after a successful init a read succeeds, and it returns 0 as long as no
\* tick has passed: every init starts from a total of 0.  Finish returns 0 when
\* the join and every close succeeded, and leaves the handle without state and
\* without thread, so that init, read and finish can follow again.
C16_CycleRepeats ==
  /\ (pc = "init_create") => (st.total_uj = U64(0) /\ st.poll_sensors = 0)
  /\ (pc = "read_ret" /\ em_state = "S") => call.errno = "0"
  /\ (pc = "read_ret" /\ em_state = "S" /\ hist = << >>) => call.value = U64(0)
  /\ (FinishReturned /\ call.close_ok) => ret = 0
  /\ FinishReturned =>
       /\ em_state = "NULL" /\ pc_s = "none" /\ "state" \notin heap
       /\ hist = << >> /\ lastRead = NoRead

\* the second init of the handle succeeded, a read returned a total, finish
\* returned 0
C16_Witness ==
  /\ FinishReturned /\ ret = 0 /\ nInits = 2
  /\ call.prev.valid /\ call.prev.value # U64(0)

----------------------------------------------------------------------------
(* Properties of the configuration errors *)

\* the fields of the rail list hold some name twice
HasDuplicate(str) ==
  \E i, j \in 1..Len(str) : i < j /\ str[i] # "" /\ str[i] = str[j]

\* C17: a rail list that names a rail twice makes init fail with EINVAL while
\* parsing (memory permitting): no descriptor is opened, no state block
\* allocated, the array of names is freed and the handle stays without state.
C17_DuplicateNameRejected ==
  (InitReturned(-1) /\ call.explicit /\ HasDuplicate(call.str) /\ call.errno # "ENOMEM") =>
    /\ call.stage = "parse" /\ call.errno = "EINVAL"
    /\ openFds = open0
    /\ heap = {}
    /\ em_state = "NULL" /\ pc_s = "none"

C17_Witness ==
  /\ InitReturned(-1) /\ call.explicit /\ call.errno = "EINVAL"
  /\ Len(call.str) = 3 /\ call.str[1] = call.str[3] /\ call.str[1] # ""
  /\ call.str[2] \notin {"", call.str[1]}
  /\ \E k \in 1..Len(call.fs) : call.fs[k].name = call.str[1]

\* the rails the fields of the list name, and whether the tree lacks one of them
NamedRails(str) == { str[i] : i \in { j \in 1..Len(str) : str[j] # "" } }
RailsInTree(fs) == { fs[k].name : k \in { j \in 1..Len(fs) : fs[j].name_status = "ok" } }
MissingRail(str, fs) == NamedRails(str) \ RailsInTree(fs) # {}

\* the walk for the parsed list of the call, started from the descriptors open
\* before the call
ExplicitWalk ==
  LET rn == get_rail_names(call.str, TRUE)
  IN  ina3221x_walk_i2c_drivers_dir(rn.names, Zeros(rn.n), rn.n, 0, open0, call.fs)

\* C18: with a rail list, when the list was parsed, the state allocated and
\* the walk met no error but found no channel for some named rail, init fails
\* with ENODEV, every descriptor it opened for the rails it did find is closed,
\* the state block and the names are freed and the handle stays without state;
\* init never goes on to the interval with a named rail missing.
C18_MissingRailRejected ==
  /\ (/\ InitReturned(-1) /\ call.explicit
      /\ call.stage \notin {"guard", "parse", "alloc"}
      /\ MissingRail(call.str, call.fs)
      /\ ExplicitWalk.ret = 0) =>
       /\ call.stage = "discovery" /\ call.errno = "ENODEV"
       /\ openFds = open0
       /\ heap = {}
       /\ em_state = "NULL" /\ pc_s = "none"
  /\ (pc = "init_resolve" /\ call.explicit) => ~MissingRail(call.str, call.fs)

\* two of the three named rails were found and opened, the third is missing
C18_Witness ==
  /\ InitReturned(-1) /\ call.explicit /\ call.errno = "ENODEV"
  /\ Cardinality(NamedRails(call.str)) = 3
  /\ Cardinality(NamedRails(call.str) \cap RailsInTree(call.fs)) = 2
  /\ Cardinality(DOMAIN ExplicitWalk.open) = Cardinality(DOMAIN open0) + 2
  /\ openFds = open0

\* no profile of the table has all its rails in fs
NoFullProfile(fs) == \A p \in 1..Len(DEFAULT_RAIL_NAMES) : ~FullyPresent(fs, p)

\* C19: without a rail list, when no profile has all its rails in sysfs, the
\* walk of the profiles ends in failure, never in a selection: init returns -1
\* with ENODEV, the descriptor table is what it was before the call and the
\* handle has no state.
C19_NoFullProfileRejected ==
  (DefaultDiscoveryDone /\ NoFullProfile(call.fs)) =>
    /\ InitReturned(-1) /\ call.errno = "ENODEV"
    /\ openFds = open0
    /\ heap = {}
    /\ em_state = "NULL" /\ pc_s = "none"

\* the text is not one unsigned integer from its first character to its last
Malformed(text) == text \in { "5000us", "fast", "99999999999999999999" }

\* C20: when ENERGYMON_JETSON_INTERVAL_US is set to a text that is not a
\* well-formed unsigned integer, init fails at the interval: it returns -1,
\* the rail descriptors are closed, the state is freed and no sampler thread
\* is started.
C20_MalformedIntervalRejected ==
  (call.op = "init" /\ call.env.set /\ Malformed(call.env.text)) =>
    /\ InitReturned(-1) /\ call.stage = "interval"
    /\ heap = {} /\ em_state = "NULL" /\ pc_s = "none"
    /\ \A fd \in DOMAIN openFds : fd \in DOMAIN open0

----------------------------------------------------------------------------
(* Properties of the interval *)

Max(a, b) == IF a >= b THEN a ELSE b

\* the interval has been resolved for the call of init in progress
IntervalResolved == pc = "init_create" /\ call.op = "init"

\* the number strtoul made of the override of the call
OverrideValue == (CHOOSE p \in strtoul(call.env.text) : p.errno = "0").value

\* C21 as stated: an override u gives max(u, 1000); without one a delay d > 0
\* found by discovery gives max(d, 1000) and the default of 100000 us is used
\* only when d = 0.
C21_IntervalPriority_AsStated ==
  IntervalResolved =>
    /\ call.env.set => st.polling_delay_us = Max(OverrideValue, INA3221_MIN_POLLING_DELAY_US)
    /\ (~call.env.set /\ call.polling_delay_us > 0) =>
         st.polling_delay_us = Max(call.polling_delay_us, INA3221_MIN_POLLING_DELAY_US)
    /\ (~call.env.set /\ call.polling_delay_us = 0) =>
         st.polling_delay_us = INA3221_DEFAULT_POLLING_DELAY_US

\* C21: an override u gives max(u, 1000) whatever discovery found; without one
\* the interval is the delay d found by discovery raised to the default, that
\* is max(d, 100000): the default is a floor of the hardware delay, not only
\* its replacement when none was found.
C21_IntervalPriority ==
  IntervalResolved =>
    /\ call.env.set => st.polling_delay_us = Max(OverrideValue, INA3221_MIN_POLLING_DELAY_US)
    /\ ~call.env.set =>
         st.polling_delay_us = Max(call.polling_delay_us, INA3221_DEFAULT_POLLING_DELAY_US)

\* no override, and discovery found a delay of 1 ms
C21_Witness ==
  /\ IntervalResolved /\ ~call.env.set
  /\ call.polling_delay_us = 1000
  /\ st.polling_delay_us = INA3221_DEFAULT_POLLING_DELAY_US

----------------------------------------------------------------------------
(* Properties of the functions that only read *)

\* a step of a call of read_total, get_interval or get_precision
ReaderStep ==
  /\ call'.op \in {"read", "get_interval", "get_precision"}
  /\ pc \in {"idle", "read_load"} /\ pc' \in {"read_load", "read_ret", "get_ret"}
  /\ pc' # pc

\* C22: with no state read_total, get_interval and get_precision return 0 with
\* EINVAL; with a state read_total returns, with errno 0, a value that is not
\* beyond the total of the block when it returns, it can always take its next
\* step whatever the sampler is doing, and no step of the three functions
\* changes the block, the handle, the descriptors or the sampler.
C22_ReadersOnlyRead ==
  /\ []((pc \in {"read_ret", "get_ret"} /\ em_state = "NULL") =>
          call.value = U64(0) /\ call.errno = "EINVAL")
  /\ []((pc = "read_ret" /\ em_state # "NULL") =>
          call.errno = "0" /\ LeqU64(call.value, st.total_uj))
  /\ [](pc = "read_load" => ENABLED ReadTotalSecondWord)
  /\ [][ReaderStep => UNCHANGED <<em_state, st, heap, openFds, samplerVars>>]_vars


----------------------------------------------------------------------------
(* Properties of the sharing of the block *)

\* a sampler thread was created and has not been joined
SamplerExists == pc_s # "none"

\* the step is the addition of line 335, made by the sampler thread
SamplerWrites == pc_s = "read" /\ pc_s' \in {"check2", "done"} /\ pc' = pc /\ call' = call

\* the step is the return of pthread_join in finish, with what follows it
JoinReturns == pc = "finish_join" /\ pc' = "finish_ret" /\ pc_s = "done"

\* C23: while a sampler thread exists, up to the join of finish, a step that
\* changes total_uj is a step of the sampler thread: init after the thread's
\* creation, read_total, get_interval, get_precision and finish before the
\* join leave total_uj as it is; and a thread is created only for a block
\* that has none.
C23_SamplerIsOnlyWriter ==
  /\ [][(SamplerExists /\ st'.total_uj # st.total_uj) => (SamplerWrites \/ JoinReturns)]_vars
  /\ [](pc = "init_create" => ~SamplerExists)

\* the sampler has added to the total, the controlling thread has read the
\* total and now the interval, and the thread is still running
C23_Witness ==
  /\ pc = "get_ret" /\ call.op = "get_interval"
  /\ lastRead.valid /\ lastRead.value # U64(0)
  /\ st.poll_sensors # 0 /\ pc_s \in {"sleep", "check", "read"}
  /\ ticks >= 2

----------------------------------------------------------------------------
(* Properties of the ODROID Smart Power backend *)

\* a call that began after finish had freed the block has returned
OspReturnedAfterRelease(op) ==
  osp.pc = "ret" /\ osp.op = op /\ osp.after_release

\* C24: once finish has freed the block the handle is without state: the
\* block the handle names is never a freed one, and so a call that follows
\* never reads or writes freed memory and never dies there; a second finish
\* returns -1, a read_total returns 0 and an init is not turned down as
\* already initialized.
C24_OspFinishLeavesHandleUninitialized ==
  /\ (osp.pc \in {"ret", "crashed"} /\ osp.after_release) =>
       osp.pc = "ret" /\ ~osp.freed_seen
  /\ OspReturnedAfterRelease("finish") => osp.ret = -1
  /\ OspReturnedAfterRelease("read") => osp.value = 0
  /\ OspReturnedAfterRelease("init") => osp.stage # "guard"

----------------------------------------------------------------------------
(* Properties of the walk *)

\* entry k of fs makes a walk for names fail: a rail-name file that cannot be
\* read, a bus directory that cannot be opened, the power file of a channel
\* of one of the names that cannot be opened
FailsWalk(names, fs, k) ==
  \/ fs[k].name_status \in {"eio", "nobus"}
  \/ /\ fs[k].name_status = "ok"
     /\ \E i \in 1..Len(names) : names[i] = fs[k].name
     /\ ~fs[k].power_ok

\* entry k of fs is the second channel of one of the names
RepeatsName(names, fs, k) ==
  /\ fs[k].name_status = "ok"
  /\ \E i \in 1..Len(names) : names[i] = fs[k].name
  /\ \E j \in 1..(k - 1) : fs[j].name_status = "ok" /\ fs[j].name = fs[k].name

\* the rails of the names with a channel before entry k
RailsBefore(names, fs, k) ==
  { fs[j].name : j \in { m \in 1..(k - 1) :
       fs[m].name_status = "ok" /\ \E i \in 1..Len(names) : names[i] = fs[m].name } }

\* the rails the descriptors of a table read
RailsOpen(open) == { open[fd] : fd \in DOMAIN open }

\* the first entry of fs that fails the walk, with no name repeated up to it
FirstFailure(names, fs, k) ==
  /\ k \in 1..Len(fs)
  /\ FailsWalk(names, fs, k) /\ ~RepeatsName(names, fs, k)
  /\ \A j \in 1..(k - 1) : ~FailsWalk(names, fs, j) /\ ~RepeatsName(names, fs, j)

\* nothing in fs fails the walk or repeats a name
CleanTree(names, fs) ==
  \A k \in 1..Len(fs) : ~FailsWalk(names, fs, k) /\ ~RepeatsName(names, fs, k)

\* init with a rail list has walked sysfs
ExplicitWalked ==
  /\ call.op = "init" /\ call.explicit
  /\ \/ pc = "init_resolve"
     \/ pc = "init_ret" /\ call.stage = "discovery"

\* C25: a walk goes past channels without a rail-name file and past entries
\* that are no bus or device directory: with nothing else wrong every named
\* rail that has a channel is opened, wherever it comes.  A rail-name file
\* that cannot be read, a bus directory that cannot be opened and a power
\* file of a named rail that cannot be opened each end the walk there (no
\* rail behind the entry is opened) and init returns -1 with everything
\* closed; so too in the walk of a default profile.
C25_WalkSkipsAndFails ==
  /\ [](ExplicitWalked =>
         LET names == strtok_to_arr_r(call.str) IN
         /\ \A k \in 1..Len(call.fs) : FirstFailure(names, call.fs, k) =>
              /\ InitReturned(-1) /\ call.errno \in {"EIO", "EACCES"}
              /\ ExplicitWalk.ret = -1
              /\ RailsOpen(ExplicitWalk.open) \ RailsOpen(open0)
                   \subseteq RailsBefore(names, call.fs, k)
              /\ openFds = open0 /\ em_state = "NULL" /\ heap = {}
         /\ (CleanTree(names, call.fs) /\ ~MissingRail(call.str, call.fs)) =>
              /\ pc = "init_resolve"
              /\ \A i \in 1..Len(names) : HoldsRail(i, names[i]))
  /\ [][(/\ pc = "init_walk_default"
         /\ \E k \in 1..Len(call.fs) :
              FirstFailure(DEFAULT_RAIL_NAMES[call.di], call.fs, k))
        => (/\ pc' = "init_ret" /\ ret' = -1
            /\ call'.errno \in {"EIO", "EACCES", "EEXIST"}
            /\ openFds' = open0 /\ em_state' = "NULL" /\ heap' = {})]_vars

\* the walk for a rail list went past an entry it skips, opened the rail of
\* the channel behind it and ended at a rail-name file that cannot be read
C25_Witness ==
  /\ InitReturned(-1) /\ call.explicit /\ call.stage = "discovery"
  /\ call.errno = "EIO"
  /\ Len(call.fs) = 3
  /\ call.fs[1].name_status \in {"enoent", "other"}
  /\ call.fs[2].name_status = "ok" /\ call.fs[2].name = "GPU" /\ call.fs[2].power_ok
  /\ call.fs[3].name_status = "eio"
  /\ RailsOpen(ExplicitWalk.open) = {"GPU"}
  /\ openFds = open0

\* entry k of fs is the first that repeats one of the names, with no entry
\* before it that fails the walk
FirstRepeat(names, fs, k) ==
  /\ k \in 1..Len(fs)
  /\ RepeatsName(names, fs, k)
  /\ \A j \in 1..(k - 1) : ~FailsWalk(names, fs, j) /\ ~RepeatsName(names, fs, j)

\* the descriptors a walk opened on the power file of rail name
OpenedFor(w, name) == { fd \in (DOMAIN w.open) \ (DOMAIN open0) : w.open[fd] = name }

\* C26: when a walk meets a second channel of one of its names it fails with
\* EEXIST and has opened one descriptor for that name, not two; init returns
\* -1 with the descriptor table as before the call and the state freed; in
\* the walk of a default profile the same, and no later profile is walked.
C26_RepeatedRailRejected ==
  /\ [](ExplicitWalked =>
         LET names == strtok_to_arr_r(call.str) IN
         \A k \in 1..Len(call.fs) : FirstRepeat(names, call.fs, k) =>
           /\ InitReturned(-1) /\ call.errno = "EEXIST"
           /\ ExplicitWalk.ret = -1
           /\ Cardinality(OpenedFor(ExplicitWalk, call.fs[k].name)) = 1
           /\ openFds = open0 /\ em_state = "NULL" /\ heap = {})
  /\ [][(/\ pc = "init_walk_default"
         /\ \E k \in 1..Len(call.fs) :
              FirstRepeat(DEFAULT_RAIL_NAMES[call.di], call.fs, k))
        => (/\ pc' = "init_ret" /\ ret' = -1 /\ call'.errno = "EEXIST"
            /\ call'.di = call.di
            /\ openFds' = open0 /\ em_state' = "NULL" /\ heap' = {})]_vars

\* a list of two rails: both were opened, then the first was met again
C26_Witness ==
  /\ InitReturned(-1) /\ call.explicit /\ call.errno = "EEXIST"
  /\ call.str = <<"GPU", "CPU">>
  /\ Len(call.fs) = 3
  /\ call.fs[1].name = "GPU" /\ call.fs[2].name = "CPU" /\ call.fs[3].name = "GPU"
  /\ \A k \in 1..3 : call.fs[k].name_status = "ok" /\ call.fs[k].power_ok
  /\ RailsOpen(ExplicitWalk.open) = {"GPU", "CPU"}
  /\ openFds = open0

----------------------------------------------------------------------------
(* Properties of the delay discovery hands to the resolver *)

\* the rails the descriptors in slots 1..count of the block read
RailSet ==
  { openFds[st.fds[j]] : j \in { i \in 1..st.count : st.fds[i] \in DOMAIN openFds } }

\* the delays (us) above 0 of the channels of those rails
RailSetDelays ==
  { d \in { ina3221x_try_read_polling_delay_us(call.fs[k]) :
              k \in { m \in 1..Len(call.fs) :
                        call.fs[m].name_status = "ok" /\ call.fs[m].name \in RailSet } } :
      d > 0 }

\* C27: the delay discovery hands to the resolver is the largest delay above
\* 0 among the channels whose descriptors the block holds, 0 if there is none:
\* other channels and the channels of a profile that was given up add nothing.
C27_DelayIsOfRailSet ==
  (pc = "init_resolve" /\ call.op = "init") =>
    /\ \A d \in RailSetDelays : d <= call.polling_delay_us
    /\ call.polling_delay_us = 0 \/ call.polling_delay_us \in RailSetDelays

----------------------------------------------------------------------------
(* Properties of the start of the sampler *)

\* the thread has not yet returned from the sleep of line 321
FirstSleepPending == pc_s \in {"start", "sleep_init"}

\* the thread has not yet been through the loop condition for the first time
FirstCheckPending == pc_s \in {"start", "sleep_init", "check"} /\ ticks = 0

\* no descriptor was read and nothing was added to the total
NothingSampled == st.total_uj = U64(0) /\ hist = << >> /\ ticks = 0 /\ smp.i = 0

\* C28: the sampler takes its time base and then sleeps once before the first
\* sample: from its start it goes only into that sleep (or ends, without a
\* clock), and until the sleep has ended the total is 0 and no descriptor was
\* read; when the flag is cleared before or during that sleep the thread goes
\* on to its end without a read and with the total still 0, and it does end.
C28_FirstSleepBeforeFirstSample ==
  /\ [](FirstSleepPending => NothingSampled)
  /\ [][(pc_s = "start" /\ pc_s' # "start") => pc_s' \in {"sleep_init", "done"}]_vars
  /\ [][(FirstCheckPending /\ st.poll_sensors = 0 /\ pc_s' # pc_s)
          => (pc_s' \in {"sleep_init", "check", "done"} /\ NothingSampled')]_vars
  /\ (FirstSleepPending /\ st.poll_sensors = 0) ~> (pc_s = "done")

\* the flag was cleared during the first sleep, the sleep has ended and the
\* thread stands at the loop condition with nothing sampled (a build without
\* pthread_cancel: the flag alone ends the thread)
C28_Witness ==
  /\ android
  /\ pc_s = "check" /\ ticks = 0 /\ st.poll_sensors = 0
  /\ pc = "finish_join"
  /\ NothingSampled

----------------------------------------------------------------------------
(* Properties of the unwinding of init *)

\* C29: cleanup cancels and joins only a thread that was created: the handle
\* given to pthread_join is never the one no thread was stored in, on the path
\* of a failed pthread_create as on the path of a failed interval.
C29_JoinsOnlyCreatedThread ==
  /\ call.joined # "unset"
  /\ (call.op = "init" /\ call.stage = "interval") => call.joined = "none"

----------------------------------------------------------------------------
(* Properties of the raplcap-ipg backend *)

\* the passes of the loops over the block the handle holds
IpgZones == 1..(ipg.n_pkg * ipg.n_die)

\* C30: the slot of a package and a die lies in the block and differs from
\* the slot of every other package and die, so that a read_total raises the
\* overflow count at a zone only when the reading of that zone is below the
\* reading the zone gave before.
C30_SlotsAreDistinct ==
  ipg.state # "NULL" =>
    /\ \A k \in IpgZones : ZoneSlot(k, ipg.n_die) \in 0..(ipg.n_msrs - 1)
    /\ \A k, m \in IpgZones : k # m => ZoneSlot(k, ipg.n_die) # ZoneSlot(m, ipg.n_die)
    /\ \A k \in ipg.rose : ipg.cur[k] < ipg.last[k]

----------------------------------------------------------------------------
(* Properties of a failed init of the ODROID Smart Power backend *)

\* energymon_init_osp returned -1 past the test of line 130
OspInitFailed ==
  osp.pc = "ret" /\ osp.op = "init" /\ osp.ret = -1 /\ osp.stage # "guard"

\* energymon_init_osp returned -1 at the test of line 130
OspInitTurnedDown ==
  osp.pc = "ret" /\ osp.op = "init" /\ osp.ret = -1 /\ osp.stage = "guard"

\* C31: when init returns -1 because a step of it failed, the handle is as
\* before the call: impl->state is NULL and no block is left allocated; so an
\* init is turned down as already initialized only on a handle whose block is
\* live with the device open.
C31_OspFailedInitLeavesNoState ==
  /\ OspInitFailed => (osp.state = "NULL" /\ osp.block # "live")
  /\ OspInitTurnedDown => (osp.block = "live" /\ osp.device = "open")

============================================================================
